---- MODULE Spec2Model ----
(***************************************************************************)
(* Tab Group Bookmarks (background.js): the engine that keeps the tabs of  *)
(* a window and the entries of a bookmark folder in step.                  *)
(*                                                                         *)
(* The extension runs on one JavaScript thread.  An async function runs    *)
(* without interruption from one await to the next; at an await it is      *)
(* suspended and other listeners may run.  Every action below is one such  *)
(* uninterrupted piece: the code from a resumption up to and including the *)
(* next browser call, whose effect on the browser is taken at the call.    *)
(***************************************************************************)
EXTENDS Integers, Sequences, FiniteSets, TLC

\* ------------------------------------------------------------------ bounds
MaxSource == 3
MaxTarget == 2
MaxEvents == 2
MaxExternal == 2
MaxNow == 1

\* ---------------------------------------------------------------- universe
Windows == {1, 2}
Folders == {1, 2, 3}
\* the folders there are before the popup creates one
SavedFolders == {1, 2}
NoUrl == ""
NormalUrls == {"a", "b", "c", "d"}
BlankUrl == "about:newtab"
Titles == {"t", "u"}
None == 0

Min(a, b) == IF a < b THEN a ELSE b
Max(a, b) == IF a > b THEN a ELSE b

\* url.startsWith('about:') / url.startsWith('moz-extension:')
Scheme(url) ==
  IF url = "about:config" \/ url = "about:newtab" THEN "about:"
  ELSE IF url = "moz-extension:page" THEN "moz-extension:"
  ELSE IF url = NoUrl THEN ""
  ELSE "https:"

\* the skip test of line 228 as it would be with only its first disjunct
SkipTabUrlEmptyOnly(url) == url = NoUrl

\* !tab.url || tab.url.startsWith('about:') || tab.url.startsWith('moz-extension:')
SkipTabUrl(url) ==
  url = NoUrl \/ Scheme(url) = "about:" \/ Scheme(url) = "moz-extension:"

\* b.url && !b.url.startsWith('about:') && !b.url.startsWith('moz-extension:')
IsUrlBookmark(url) ==
  url # NoUrl /\ Scheme(url) # "about:" /\ Scheme(url) # "moz-extension:"

\* ---------------------------------------------------------------- sequences
RemoveAt(s, pos) == SubSeq(s, 1, pos - 1) \o SubSeq(s, pos + 1, Len(s))

\* x ends at 0-based index idx, or at the end when idx is beyond it
InsertAt(s, idx, x) ==
  LET j == Min(Max(idx, 0), Len(s))
  IN SubSeq(s, 1, j) \o <<x>> \o SubSeq(s, j + 1, Len(s))

\* the element at 1-based pos ends at 0-based index idx (clamped to the last)
MoveTo(s, pos, idx) == InsertAt(RemoveAt(s, pos), idx, s[pos])

PosOfId(s, id) ==
  IF \E n \in 1..Len(s) : s[n].id = id
  THEN CHOOSE n \in 1..Len(s) : s[n].id = id
  ELSE 0

Ids(s) == {s[n].id : n \in 1..Len(s)}

UrlsOf(s) == [n \in 1..Len(s) |-> s[n].url]

NoDup(s) == \A m, n \in 1..Len(s) : m # n => s[m] # s[n]

\* Map.set in array order: the last entry with the url wins (position, 0 = none)
LastWithUrl(s, url) ==
  IF \E n \in 1..Len(s) : s[n].url = url
  THEN CHOOSE n \in 1..Len(s) :
         /\ s[n].url = url
         /\ \A m \in (n + 1)..Len(s) : s[m].url # url
  ELSE 0

\* ------------------------------------------------------------------- state
VARIABLES
  live,               \* browser: ids of the open windows
  tabs,               \* browser: window -> its tabs in order [id, url, title, pinned]
  folders,            \* browser: ids of the existing bookmark folders
  bms,                \* browser: folder -> its children in order [id, url, title]
  storage,            \* browser.storage.local: [mappings, pinned, lastUsed]
  windowMappings,     \* window -> folder, None when the window has no mapping
  pinnedTabsByFolder, \* folder -> [has, urls]
  folderLastUsed,     \* folder -> stamp, 0 when never stamped
  isSyncing,
  pendingSyncs,       \* a JavaScript Set: window ids in insertion order
  events,             \* notifications the browser has sent and no listener has run for
  passes,             \* the invocations of the two sync functions that are suspended
  ops,                \* the suspended invocations of the popup's operations
  ext,                \* history of what was done from outside (see NoExt)
  lastPass            \* summary of the pass that ended last

vars == <<live, tabs, folders, bms, storage, windowMappings, pinnedTabsByFolder,
          folderLastUsed, isSyncing, pendingSyncs, events, passes, ops, ext,
          lastPass>>

browserVars == <<live, tabs, folders, bms>>
memoryVars == <<windowMappings, pinnedTabsByFolder, folderLastUsed, storage>>

\* ----------------------------------------------------------- notifications
\* old: moveInfo.oldParentId of bookmarks.onMoved (0 in other notifications)
Ev(type, win, folder, url, id, closing) ==
  [type |-> type, win |-> win, folder |-> folder, url |-> url, id |-> id,
   closing |-> closing, old |-> 0]

\* bookmarks.onMoved: moveInfo.parentId and moveInfo.oldParentId
EvMoved(parentId, oldParentId) ==
  [Ev("bmMoved", 0, parentId, NoUrl, 0, FALSE) EXCEPT !.old = oldParentId]

\* --------------------------------------------------------------- browser API
Call(api) ==
  [api |-> api, win |-> 0, folder |-> 0, id |-> 0, url |-> NoUrl, title |-> "",
   index |-> -1, pinned |-> FALSE]

PageTitle(url) == "t"

FolderOfBm(id) ==
  IF \E f \in folders : id \in Ids(bms[f])
  THEN CHOOSE f \in folders : id \in Ids(bms[f])
  ELSE 0

WindowOfTab(id) ==
  IF \E w \in live : id \in Ids(tabs[w])
  THEN CHOOSE w \in live : id \in Ids(tabs[w])
  ELSE 0

IdSpace == 1..30

UsedBmIds ==
  UNION {Ids(bms[f]) : f \in Folders}
  \cup UNION {Ids(passes[n].bms) \cup passes[n].seen \cup {passes[n].newId}
              : n \in 1..Len(passes)}
  \cup {events[n].id : n \in 1..Len(events)}

UsedTabIds ==
  UNION {Ids(tabs[w]) : w \in Windows}
  \cup UNION {Ids(passes[n].tabs) \cup passes[n].seen \cup {passes[n].newId}
              : n \in 1..Len(passes)}
  \cup {ops[n].blank : n \in 1..Len(ops)}

FreshBmId == CHOOSE n \in IdSpace \ UsedBmIds : \A m \in IdSpace \ UsedBmIds : n <= m
FreshTabId == CHOOSE n \in IdSpace \ UsedTabIds : \A m \in IdSpace \ UsedTabIds : n <= m

NumPinned(s) == Cardinality({n \in 1..Len(s) : s[n].pinned})

\* gBrowser.addTab: a pinned tab lands among the pinned tabs, an unpinned one after them
TabInsert(s, tab, index) ==
  LET np == NumPinned(s)
      j == IF tab.pinned
           THEN (IF index < 0 THEN np ELSE Min(index, np))
           ELSE (IF index < 0 THEN Len(s) ELSE Min(Max(index, np), Len(s)))
  IN InsertAt(s, j, tab)

\* tabs.move: a move across the pinned boundary is ignored
TabMove(s, pos, index) ==
  LET np == NumPinned(s)
      legal == IF s[pos].pinned THEN index <= np ELSE index >= np
      j == IF s[pos].pinned THEN Min(index, np - 1) ELSE index
  IN IF legal THEN MoveTo(s, pos, j) ELSE s

\* gBrowser.pinTab / unpinTab: the tab moves to the boundary, then changes state
TabSetPinned(s, pos, pinned) ==
  LET np == NumPinned(s)
  IN IF s[pos].pinned = pinned THEN s
     ELSE IF pinned
          THEN MoveTo([s EXCEPT ![pos].pinned = TRUE], pos, np)
          ELSE MoveTo([s EXCEPT ![pos].pinned = FALSE], pos, np - 1)

Same ==
  [ok |-> TRUE, tabs |-> tabs, live |-> live, bms |-> bms, folders |-> folders,
   emits |-> <<>>, newId |-> 0]

Failed == [Same EXCEPT !.ok = FALSE]

BmCreate(c) ==
  IF c.folder \notin folders THEN Failed
  ELSE LET id == FreshBmId
           rec == [id |-> id, url |-> c.url, title |-> c.title]
       IN [Same EXCEPT
             !.bms = [bms EXCEPT ![c.folder] = InsertAt(@, c.index, rec)],
             !.newId = id,
             !.emits = <<Ev("bmCreated", 0, c.folder, c.url, 0, FALSE)>>]

BmUpdate(c) ==
  LET f == FolderOfBm(c.id)
  IN IF f = 0 THEN Failed
     ELSE LET pos == PosOfId(bms[f], c.id)
          IN [Same EXCEPT
                !.bms = [bms EXCEPT ![f][pos].title = c.title],
                !.emits = <<Ev("bmChanged", 0, f, NoUrl, c.id, FALSE)>>]

BmMove(c) ==
  LET f == FolderOfBm(c.id)
  IN IF f = 0 THEN Failed
     ELSE LET new == MoveTo(bms[f], PosOfId(bms[f], c.id), c.index)
          IN [Same EXCEPT
                !.bms = [bms EXCEPT ![f] = new],
                !.emits = IF new = bms[f] THEN <<>>
                          ELSE <<EvMoved(f, f)>>]

BmRemove(c) ==
  LET f == FolderOfBm(c.id)
  IN IF f = 0 THEN Failed
     ELSE [Same EXCEPT
             !.bms = [bms EXCEPT ![f] = RemoveAt(@, PosOfId(@, c.id))],
             !.emits = <<Ev("bmRemoved", 0, f, NoUrl, 0, FALSE)>>]

BmGetSubTree(c) == IF c.folder \in folders THEN Same ELSE Failed

TabCreate(c) ==
  IF c.win \notin live THEN Failed
  ELSE LET id == FreshTabId
           rec == [id |-> id, url |-> c.url, title |-> PageTitle(c.url),
                   pinned |-> c.pinned]
       IN [Same EXCEPT
             !.tabs = [tabs EXCEPT ![c.win] = TabInsert(@, rec, c.index)],
             !.newId = id,
             !.emits = <<Ev("tabCreated", c.win, 0, c.url, 0, FALSE)>>]

TabUpdate(c) ==
  LET w == WindowOfTab(c.id)
  IN IF w = 0 THEN Failed
     ELSE LET new == TabSetPinned(tabs[w], PosOfId(tabs[w], c.id), c.pinned)
          IN [Same EXCEPT
                !.tabs = [tabs EXCEPT ![w] = new],
                !.emits = IF new = tabs[w] THEN <<>>
                          ELSE <<Ev("tabUpdated", w, 0, NoUrl, 0, FALSE)>>]

TabMoveCall(c) ==
  LET w == WindowOfTab(c.id)
  IN IF w = 0 \/ w # c.win THEN Failed
     ELSE LET new == TabMove(tabs[w], PosOfId(tabs[w], c.id), c.index)
          IN [Same EXCEPT
                !.tabs = [tabs EXCEPT ![w] = new],
                !.emits = IF new = tabs[w] THEN <<>>
                          ELSE <<Ev("tabMoved", w, 0, NoUrl, 0, FALSE)>>]

\* closing the last tab of a window closes the window
TabRemove(c) ==
  LET w == WindowOfTab(c.id)
  IN IF w = 0 THEN Failed
     ELSE IF Len(tabs[w]) = 1
          THEN [Same EXCEPT
                  !.tabs = [tabs EXCEPT ![w] = <<>>],
                  !.live = live \ {w},
                  !.emits = <<Ev("tabRemoved", w, 0, NoUrl, 0, TRUE),
                              Ev("windowRemoved", w, 0, NoUrl, 0, FALSE)>>]
          ELSE [Same EXCEPT
                  !.tabs = [tabs EXCEPT ![w] = RemoveAt(@, PosOfId(@, c.id))],
                  !.emits = <<Ev("tabRemoved", w, 0, NoUrl, 0, FALSE)>>]

Effect(c) ==
  CASE c.api = "bookmarks.create" -> BmCreate(c)
    [] c.api = "bookmarks.update" -> BmUpdate(c)
    [] c.api = "bookmarks.move" -> BmMove(c)
    [] c.api = "bookmarks.remove" -> BmRemove(c)
    [] c.api = "bookmarks.getSubTree" -> BmGetSubTree(c)
    [] c.api = "tabs.create" -> TabCreate(c)
    [] c.api = "tabs.update" -> TabUpdate(c)
    [] c.api = "tabs.move" -> TabMoveCall(c)
    [] c.api = "tabs.remove" -> TabRemove(c)
    [] OTHER -> Same

IsWrite(c) ==
  c.api \in {"bookmarks.create", "bookmarks.update", "bookmarks.move",
             "bookmarks.remove", "tabs.create", "tabs.update", "tabs.move",
             "tabs.remove"}

\* ------------------------------------------------- syncTabsToBookmarks body
\* A suspended invocation: pc names the await it is suspended at; tabs and bms
\* are its snapshots; i, bookmarkIndex and k are its loop counters (0-based);
\* cont is the folder the bookmarks.onMoved listener syncs after this pass.
NewPass(dir, win, folder, pc) ==
  [dir |-> dir, win |-> win, folder |-> folder, pc |-> pc, tabs |-> <<>>,
   bms |-> <<>>, i |-> 0, bookmarkIndex |-> 0, k |-> 0, seen |-> {},
   pinned |-> {}, newId |-> 0, cont |-> None, writes |-> 0]

Suspend(p, pc, call) == [p |-> [p EXCEPT !.pc = pc], call |-> call]

RECURSIVE T2BLoop(_), T2BMove(_), T2BRemove(_)

\* lines 270-279: remove the unseen entries, then save the pinned urls
T2BRemove(p) ==
  IF p.k >= Len(p.bms)
  THEN Suspend(p, "awaitSave", Call("savePinnedTabs"))
  ELSE LET bookmark == p.bms[p.k + 1]
       IN IF bookmark.id \notin p.seen
          THEN Suspend([p EXCEPT !.k = @ + 1], "awaitRemove",
                       [Call("bookmarks.remove") EXCEPT !.id = bookmark.id])
          ELSE T2BRemove([p EXCEPT !.k = @ + 1])

\* lines 251-254 and 266: the position check uses the snapshot's index
T2BMove(p) ==
  LET tab == p.tabs[p.i + 1]
      pos == LastWithUrl(p.bms, tab.url)
  IN IF pos - 1 # p.bookmarkIndex
     THEN Suspend(p, "awaitMove",
                  [Call("bookmarks.move") EXCEPT !.id = p.bms[pos].id,
                                                 !.index = p.bookmarkIndex])
     ELSE T2BLoop([p EXCEPT !.i = @ + 1, !.bookmarkIndex = @ + 1])

\* lines 224-250, 255-262
T2BLoop(p) ==
  IF p.i >= Len(p.tabs) THEN T2BRemove([p EXCEPT !.k = 0])
  ELSE LET tab == p.tabs[p.i + 1]
       IN IF SkipTabUrl(tab.url) THEN T2BLoop([p EXCEPT !.i = @ + 1])
          ELSE LET p1 == IF tab.pinned
                         THEN [p EXCEPT !.pinned = @ \cup {tab.url}]
                         ELSE p
                   pos == LastWithUrl(p.bms, tab.url)
               IN IF pos # 0
                  THEN LET p2 == [p1 EXCEPT !.seen = @ \cup {p.bms[pos].id}]
                       IN IF p.bms[pos].title # tab.title
                          THEN Suspend(p2, "awaitUpdate",
                                 [Call("bookmarks.update") EXCEPT
                                    !.id = p.bms[pos].id, !.title = tab.title])
                          ELSE T2BMove(p2)
                  ELSE Suspend(p1, "awaitCreate",
                         [Call("bookmarks.create") EXCEPT
                            !.folder = p.folder, !.title = tab.title,
                            !.url = tab.url, !.index = p.bookmarkIndex])

\* what the invocation does when it is resumed: the call it suspends at next
T2BResume(p) ==
  CASE p.pc = "awaitQuery" ->
         Suspend(p, "awaitSubTree",
                 [Call("bookmarks.getSubTree") EXCEPT !.folder = p.folder])
    [] p.pc = "awaitSubTree" -> T2BLoop([p EXCEPT !.i = 0, !.bookmarkIndex = 0])
    [] p.pc = "awaitUpdate" -> T2BMove(p)
    [] p.pc = "awaitMove" ->
         T2BLoop([p EXCEPT !.i = @ + 1, !.bookmarkIndex = @ + 1])
    [] p.pc = "awaitCreate" ->
         T2BLoop([p EXCEPT !.seen = @ \cup {p.newId}, !.i = @ + 1,
                           !.bookmarkIndex = @ + 1])
    [] p.pc = "awaitRemove" -> T2BRemove(p)
    [] OTHER -> Suspend(p, "done", Call("finally"))

\* ------------------------------------------------- syncBookmarksToTabs body
RECURSIVE B2TLoop(_), B2TMove(_), B2TRemove(_)

\* lines 375-379
B2TRemove(p) ==
  IF p.k >= Len(p.tabs)
  THEN Suspend(p, "done", Call("finally"))
  ELSE LET tab == p.tabs[p.k + 1]
       IN IF tab.id \notin p.seen /\ Scheme(tab.url) # "about:"
             /\ Scheme(tab.url) # "moz-extension:"
          THEN Suspend([p EXCEPT !.k = @ + 1], "awaitRemove",
                       [Call("tabs.remove") EXCEPT !.id = tab.id])
          ELSE B2TRemove([p EXCEPT !.k = @ + 1])

\* tabsByUrl leaves out the tabs with a special-scheme url (lines 328-333)
TabWithUrl(s, url) ==
  IF SkipTabUrl(url) THEN 0 ELSE LastWithUrl(s, url)

\* lines 357-360
B2TMove(p) ==
  LET bookmark == p.bms[p.i + 1]
      pos == TabWithUrl(p.tabs, bookmark.url)
  IN IF pos - 1 # p.i
     THEN Suspend(p, "awaitMove",
                  [Call("tabs.move") EXCEPT !.id = p.tabs[pos].id,
                                            !.win = p.win, !.index = p.i])
     ELSE B2TLoop([p EXCEPT !.i = @ + 1])

\* lines 339-371
B2TLoop(p) ==
  IF p.i >= Len(p.bms) THEN B2TRemove([p EXCEPT !.k = 0])
  ELSE LET bookmark == p.bms[p.i + 1]
       IN IF bookmark.url = NoUrl THEN B2TLoop([p EXCEPT !.i = @ + 1])
          ELSE LET shouldBePinned == bookmark.url \in p.pinned
                   pos == TabWithUrl(p.tabs, bookmark.url)
               IN IF pos # 0
                  THEN LET p2 == [p EXCEPT !.seen = @ \cup {p.tabs[pos].id}]
                       IN IF p.tabs[pos].pinned # shouldBePinned
                          THEN Suspend(p2, "awaitUpdate",
                                 [Call("tabs.update") EXCEPT
                                    !.id = p.tabs[pos].id,
                                    !.pinned = shouldBePinned])
                          ELSE B2TMove(p2)
                  ELSE Suspend(p, "awaitCreate",
                         [Call("tabs.create") EXCEPT
                            !.win = p.win, !.url = bookmark.url,
                            !.pinned = shouldBePinned, !.index = p.i])

B2TResume(p) ==
  CASE p.pc = "awaitSubTree" ->
         Suspend(p, "awaitQuery", [Call("tabs.query") EXCEPT !.win = p.win])
    [] p.pc = "awaitQuery" ->
         B2TLoop([p EXCEPT
                    !.i = 0,
                    !.pinned = IF pinnedTabsByFolder[p.folder].has
                               THEN pinnedTabsByFolder[p.folder].urls ELSE {}])
    [] p.pc = "awaitUpdate" -> B2TMove(p)
    [] p.pc = "awaitMove" -> B2TLoop([p EXCEPT !.i = @ + 1])
    [] p.pc = "awaitCreate" ->
         B2TLoop([p EXCEPT !.seen = @ \cup {p.newId}, !.i = @ + 1])
    [] p.pc = "awaitRemove" -> B2TRemove(p)
    [] OTHER -> Suspend(p, "done", Call("finally"))

\* ------------------------------------------------------ guard and scheduler
\* The part of the memory that the two sync functions' entry and exit change.
Guard == [isSyncing |-> isSyncing, pendingSyncs |-> pendingSyncs, passes |-> passes]

\* the pending windows as they would be if kept in an array: push
ArrayPush(s, x) == Append(s, x)

\* Set.add
SetAdd(s, x) == IF \E n \in 1..Len(s) : s[n] = x THEN s ELSE Append(s, x)

\* syncTabsToBookmarks as it would be without lines 189-194: the pass starts
\* whether or not another one is running
SyncTabsToBookmarksUnguarded(G, windowId) ==
  IF windowMappings[windowId] = None THEN G
  ELSE [G EXCEPT
          !.isSyncing = TRUE,
          !.passes = Append(@,
             [NewPass("t2b", windowId, windowMappings[windowId], "awaitQuery")
                EXCEPT !.tabs = tabs[windowId]])]

\* lines 185-201: entry of syncTabsToBookmarks up to its first await (tabs.query)
SyncTabsToBookmarks(G, windowId) ==
  IF windowMappings[windowId] = None THEN G
  ELSE IF G.isSyncing
       THEN [G EXCEPT !.pendingSyncs = SetAdd(@, windowId)]
       ELSE [G EXCEPT
               !.isSyncing = TRUE,
               !.passes = Append(@,
                  [NewPass("t2b", windowId, windowMappings[windowId], "awaitQuery")
                     EXCEPT !.tabs = tabs[windowId]])]

\* Object.keys(windowMappings).find(...): integer keys come in ascending order
WindowOfFolder(folderId) ==
  LET ws == {w \in Windows : windowMappings[w] = folderId}
  IN IF folderId = None \/ ws = {} THEN 0
     ELSE CHOOSE w \in ws : \A v \in ws : w <= v

\* lines 299-318: entry of syncBookmarksToTabs up to its first await (getSubTree)
SyncBookmarksToTabs(G, folderId) ==
  LET windowId == WindowOfFolder(folderId)
  IN IF windowId = 0 THEN G
     ELSE IF G.isSyncing
          THEN [G EXCEPT !.pendingSyncs = SetAdd(@, windowId)]
          ELSE [G EXCEPT
                  !.isSyncing = TRUE,
                  !.passes = Append(@,
                     IF folderId \in folders
                     THEN [NewPass("b2t", windowId, folderId, "awaitSubTree")
                             EXCEPT !.bms = bms[folderId]]
                     ELSE NewPass("b2t", windowId, folderId, "awaitThrow"))]

\* the finally block as it would be if the guard were released only at the end
\* of the try block: a pass that has thrown leaves the flag set
T2BFinallyUnlessThrown(G, n) ==
  IF G.passes[n].pc = "awaitThrow"
  THEN [G EXCEPT !.passes = RemoveAt(@, n)]
  ELSE LET released == [G EXCEPT !.isSyncing = FALSE, !.passes = RemoveAt(@, n)]
       IN IF Len(released.pendingSyncs) > 0
          THEN SyncTabsToBookmarks(
                 [released EXCEPT !.pendingSyncs = Tail(@)],
                 Head(released.pendingSyncs))
          ELSE released

\* lines 282-293: the finally block of syncTabsToBookmarks, run for passes[n];
\* no listener does anything after the syncTabsToBookmarks it awaited
T2BFinally(G, n) ==
  LET released == [G EXCEPT !.isSyncing = FALSE, !.passes = RemoveAt(@, n)]
  IN IF Len(released.pendingSyncs) > 0
     THEN SyncTabsToBookmarks(
            [released EXCEPT !.pendingSyncs = Tail(@)],
            Head(released.pendingSyncs))
     ELSE released

\* lines 380-391: the finally block of syncBookmarksToTabs, run for passes[n];
\* when the pass has not thrown, the bookmarks.onMoved listener that awaited it
\* goes on to its second call (lines 517-522)
B2TFinally(G, n) ==
  LET released == [G EXCEPT !.isSyncing = FALSE, !.passes = RemoveAt(@, n)]
      drained == IF Len(released.pendingSyncs) > 0
                 THEN SyncTabsToBookmarks(
                        [released EXCEPT !.pendingSyncs = Tail(@)],
                        Head(released.pendingSyncs))
                 ELSE released
  IN IF G.passes[n].cont # None /\ G.passes[n].pc # "awaitThrow"
     THEN SyncBookmarksToTabs(drained, G.passes[n].cont)
     ELSE drained

SetGuard(G) ==
  /\ isSyncing' = G.isSyncing
  /\ pendingSyncs' = G.pendingSyncs
  /\ passes' = G.passes

NoPass ==
  [dir |-> "none", win |-> 0, folder |-> 0, ok |-> FALSE, writes |-> 0,
   tabs0 |-> <<>>, bms0 |-> <<>>, tabs |-> <<>>, bms |-> <<>>,
   pinned |-> [has |-> FALSE, urls |-> {}],
   prev |-> [dir |-> "none", win |-> 0, ok |-> FALSE]]

\* what the pass that ends read at its start and leaves behind at its end
Summary(p) ==
  [dir |-> p.dir, win |-> p.win, folder |-> p.folder, ok |-> p.pc # "awaitThrow",
   writes |-> p.writes, tabs0 |-> p.tabs, bms0 |-> p.bms, tabs |-> tabs[p.win],
   bms |-> IF p.folder \in folders THEN bms[p.folder] ELSE <<>>,
   pinned |-> pinnedTabsByFolder[p.folder],
   prev |-> [dir |-> lastPass.dir, win |-> lastPass.win, ok |-> lastPass.ok]]

\* ------------------------------------------------------------- pass actions
\* a resumption as it would be if line 277 added the pass's pinned urls to the
\* folder's set instead of replacing the set
PassEffectMerged(n, r, e, q) ==
  /\ Len(events) + Len(e.emits) <= MaxEvents
  /\ live' = e.live
  /\ tabs' = e.tabs
  /\ folders' = e.folders
  /\ bms' = e.bms
  /\ events' = events \o e.emits
  /\ passes' = [passes EXCEPT ![n] = q]
  /\ IF r.call.api = "savePinnedTabs"
     THEN /\ pinnedTabsByFolder' =
               [pinnedTabsByFolder EXCEPT
                  ![passes[n].folder] = [has |-> TRUE, urls |-> @.urls \cup q.pinned]]
          /\ storage' = [storage EXCEPT !.pinned = pinnedTabsByFolder']
     ELSE UNCHANGED <<pinnedTabsByFolder, storage>>
  /\ UNCHANGED <<windowMappings, folderLastUsed, isSyncing, pendingSyncs,
                 ops, ext, lastPass>>

\* One resumption of a pass that ends in a browser or storage call.
PassEffect(n, r, e, q) ==
  /\ Len(events) + Len(e.emits) <= MaxEvents
  /\ live' = e.live
  /\ tabs' = e.tabs
  /\ folders' = e.folders
  /\ bms' = e.bms
  /\ events' = events \o e.emits
  /\ passes' = [passes EXCEPT ![n] = q]
  /\ IF r.call.api = "savePinnedTabs"
     THEN /\ pinnedTabsByFolder' =
               [pinnedTabsByFolder EXCEPT
                  ![passes[n].folder] = [has |-> TRUE, urls |-> q.pinned]]
          /\ storage' = [storage EXCEPT !.pinned = pinnedTabsByFolder']
     ELSE UNCHANGED <<pinnedTabsByFolder, storage>>
  /\ UNCHANGED <<windowMappings, folderLastUsed, isSyncing, pendingSyncs,
                 ops, ext, lastPass>>

\* the invocation after the call: a rejected call throws to the finally block
AfterCall(r, e) ==
  LET c == r.call
      q0 == [r.p EXCEPT !.writes = IF IsWrite(c) THEN @ + 1 ELSE @]
  IN IF ~e.ok THEN [q0 EXCEPT !.pc = "awaitThrow"]
     ELSE CASE c.api = "tabs.query" -> [q0 EXCEPT !.tabs = tabs[c.win]]
            [] c.api = "bookmarks.getSubTree" -> [q0 EXCEPT !.bms = bms[c.folder]]
            [] c.api \in {"bookmarks.create", "tabs.create"} ->
                 [q0 EXCEPT !.newId = e.newId]
            [] OTHER -> q0

PassCall(n, r) ==
  \E e \in {Effect(r.call)} :
    \E q \in {AfterCall(r, e)} : PassEffect(n, r, e, q)

SyncTabsToBookmarksStep(n) ==
  /\ n \in 1..Len(passes)
  /\ passes[n].dir = "t2b"
  /\ \E r \in {T2BResume(passes[n])} :
       r.call.api # "finally" /\ PassCall(n, r)

SyncTabsToBookmarksFinally(n) ==
  /\ n \in 1..Len(passes)
  /\ passes[n].dir = "t2b"
  /\ T2BResume(passes[n]).call.api = "finally"
  /\ SetGuard(T2BFinally(Guard, n))
  /\ lastPass' = Summary(passes[n])
  /\ UNCHANGED <<browserVars, memoryVars, events, ops, ext>>

SyncBookmarksToTabsStep(n) ==
  /\ n \in 1..Len(passes)
  /\ passes[n].dir = "b2t"
  /\ \E r \in {B2TResume(passes[n])} :
       r.call.api # "finally" /\ PassCall(n, r)

\* the end of syncBookmarksToTabs as it would be if, like syncTabsToBookmarks at
\* lines 277-279, it saved the urls of the window's pinned tabs for the folder
SyncBookmarksToTabsFinallySavingPinned(n) ==
  /\ n \in 1..Len(passes)
  /\ passes[n].dir = "b2t"
  /\ B2TResume(passes[n]).call.api = "finally"
  /\ SetGuard(B2TFinally(Guard, n))
  /\ lastPass' = [Summary(B2TResume(passes[n]).p)
                  EXCEPT !.ok = passes[n].pc # "awaitThrow"]
  /\ pinnedTabsByFolder' =
       [pinnedTabsByFolder EXCEPT
          ![passes[n].folder] =
             [has |-> TRUE,
              urls |-> {tabs[passes[n].win][k].url :
                          k \in {j \in 1..Len(tabs[passes[n].win]) :
                                   tabs[passes[n].win][j].pinned}}]]
  /\ storage' = [storage EXCEPT !.pinned = pinnedTabsByFolder']
  /\ UNCHANGED <<browserVars, windowMappings, folderLastUsed, events, ops, ext>>

SyncBookmarksToTabsFinally(n) ==
  /\ n \in 1..Len(passes)
  /\ passes[n].dir = "b2t"
  /\ B2TResume(passes[n]).call.api = "finally"
  /\ SetGuard(B2TFinally(Guard, n))
  /\ lastPass' = [Summary(B2TResume(passes[n]).p)
                  EXCEPT !.ok = passes[n].pc # "awaitThrow"]
  /\ UNCHANGED <<browserVars, memoryVars, events, ops, ext>>

\* no pinned set was ever saved for the folder
NoPinned == [has |-> FALSE, urls |-> {}]

\* what storage.local.get gives when nothing was ever saved
NoData ==
  [mappings |-> [w \in Windows |-> None],
   pinned |-> [f \in Folders |-> NoPinned],
   lastUsed |-> [f \in Folders |-> 0]]

\* A suspended invocation of initialize, associateWindowWithFolder,
\* createFolderForWindow or openFolderAsNewWindow, or of a listener that awaits
\* a browser call before it asks for a pass; data and wins are what initialize
\* got from storage.local.get and windows.getAll.
NewOp(kind, win, folder, pc) ==
  [kind |-> kind, win |-> win, folder |-> folder, pc |-> pc, bms |-> <<>>,
   i |-> 0, blank |-> 0, pinned |-> {}, data |-> NoData, wins |-> {}]

\* ---------------------------------------------------------------- listeners
Deliver(type) ==
  /\ Len(events) > 0
  /\ Head(events).type = type
  /\ events' = Tail(events)

\* lines 399-402
OnTabCreated ==
  /\ Deliver("tabCreated")
  /\ SetGuard(IF windowMappings[Head(events).win] = None THEN Guard
              ELSE SyncTabsToBookmarks(Guard, Head(events).win))
  /\ UNCHANGED <<browserVars, memoryVars, ops, ext, lastPass>>

\* lines 405-419
OnTabRemoved ==
  /\ Deliver("tabRemoved")
  /\ SetGuard(IF windowMappings[Head(events).win] = None THEN Guard
              ELSE IF Head(events).closing THEN Guard
              ELSE SyncTabsToBookmarks(Guard, Head(events).win))
  /\ UNCHANGED <<browserVars, memoryVars, ops, ext, lastPass>>

\* lines 422-434: every tabUpdated notification of the model carries a change
\* of url, title or pinned
OnTabUpdated ==
  /\ Deliver("tabUpdated")
  /\ SetGuard(IF windowMappings[Head(events).win] = None THEN Guard
              ELSE SyncTabsToBookmarks(Guard, Head(events).win))
  /\ UNCHANGED <<browserVars, memoryVars, ops, ext, lastPass>>

\* lines 437-440
OnTabMoved ==
  /\ Deliver("tabMoved")
  /\ SetGuard(IF windowMappings[Head(events).win] = None THEN Guard
              ELSE SyncTabsToBookmarks(Guard, Head(events).win))
  /\ UNCHANGED <<browserVars, memoryVars, ops, ext, lastPass>>

\* lines 443-446: a tab was dragged into the window
OnTabAttached ==
  /\ Deliver("tabAttached")
  /\ SetGuard(IF windowMappings[Head(events).win] = None THEN Guard
              ELSE SyncTabsToBookmarks(Guard, Head(events).win))
  /\ UNCHANGED <<browserVars, memoryVars, ops, ext, lastPass>>

\* lines 449-452: a tab was dragged out of the window
OnTabDetached ==
  /\ Deliver("tabDetached")
  /\ SetGuard(IF windowMappings[Head(events).win] = None THEN Guard
              ELSE SyncTabsToBookmarks(Guard, Head(events).win))
  /\ UNCHANGED <<browserVars, memoryVars, ops, ext, lastPass>>

\* lines 455-461
OnWindowRemoved ==
  /\ Deliver("windowRemoved")
  /\ IF windowMappings[Head(events).win] # None
     THEN /\ windowMappings' = [windowMappings EXCEPT ![Head(events).win] = None]
          /\ storage' = [storage EXCEPT !.mappings = windowMappings']
     ELSE UNCHANGED <<windowMappings, storage>>
  /\ UNCHANGED <<browserVars, pinnedTabsByFolder, folderLastUsed, isSyncing,
                 pendingSyncs, passes, ops, ext, lastPass>>

\* lines 464-476
OnBookmarkCreated ==
  /\ Deliver("bmCreated")
  /\ SetGuard(IF Head(events).url = NoUrl THEN Guard
              ELSE IF WindowOfFolder(Head(events).folder) = 0 THEN Guard
              ELSE SyncBookmarksToTabs(Guard, Head(events).folder))
  /\ UNCHANGED <<browserVars, memoryVars, ops, ext, lastPass>>

\* lines 479-488
OnBookmarkRemoved ==
  /\ Deliver("bmRemoved")
  /\ SetGuard(IF WindowOfFolder(Head(events).folder) = 0 THEN Guard
              ELSE SyncBookmarksToTabs(Guard, Head(events).folder))
  /\ UNCHANGED <<browserVars, memoryVars, ops, ext, lastPass>>

\* lines 491-493: the listener calls bookmarks.get(id) and is suspended; the
\* parent is the one the bookmark has at the call (0 when the bookmark is gone
\* and the call rejects)
OnBookmarkChanged ==
  /\ Deliver("bmChanged")
  /\ ops' = Append(ops, NewOp("onChanged", 0, FolderOfBm(Head(events).id), "awaitGet"))
  /\ UNCHANGED <<browserVars, memoryVars, isSyncing, pendingSyncs, passes, ext,
                 lastPass>>

\* lines 494-503: bookmarks.get has settled; the window tracked with the parent
\* is looked up now and syncBookmarksToTabs is called
OnBookmarkChangedGot(n) ==
  /\ n \in 1..Len(ops)
  /\ ops[n].kind = "onChanged" /\ ops[n].pc = "awaitGet"
  /\ SetGuard(IF ops[n].folder = 0 THEN Guard
              ELSE IF WindowOfFolder(ops[n].folder) = 0 THEN Guard
              ELSE SyncBookmarksToTabs(Guard, ops[n].folder))
  /\ ops' = RemoveAt(ops, n)
  /\ UNCHANGED <<browserVars, memoryVars, events, ext, lastPass>>

OnBookmarkChangedResume == \E n \in 1..Len(ops) : OnBookmarkChangedGot(n)

\* lines 507-525: the second call, for the folder the bookmark was moved out
\* of, runs when the first returns
OnBookmarkMoved ==
  /\ Deliver("bmMoved")
  /\ LET parentId == Head(events).folder
         oldParentId == Head(events).old
         first == IF WindowOfFolder(parentId) = 0 THEN Guard
                  ELSE SyncBookmarksToTabs(Guard, parentId)
     IN SetGuard(IF Len(first.passes) > Len(passes)
                 THEN [first EXCEPT !.passes[Len(first.passes)].cont = oldParentId]
                 ELSE IF WindowOfFolder(oldParentId) = 0 THEN first
                 ELSE SyncBookmarksToTabs(first, oldParentId))
  /\ UNCHANGED <<browserVars, memoryVars, ops, ext, lastPass>>

T2BStep == \E n \in 1..Len(passes) : SyncTabsToBookmarksStep(n)
T2BEnd == \E n \in 1..Len(passes) : SyncTabsToBookmarksFinally(n)
B2TStep == \E n \in 1..Len(passes) : SyncBookmarksToTabsStep(n)
B2TEnd == \E n \in 1..Len(passes) : SyncBookmarksToTabsFinally(n)

\* ------------------------------------------------------------------ history
\* n: the number of user actions so far; wins: the number of windows there
\* have been (window ids are not used again); unsynced: the windows disassociateWindow
\* was called for; closed: the window the user closed, its folder and the
\* folder's entries then; added: the id of the bookmark with a normal url the
\* user added to a tracked folder when no tab notification was waiting, no request was pending
\* and no Tab->Bookmark pass had yet to read the folder.  Both are kept only
\* while the user associates no window: an association makes the window's tabs
\* the source of truth for the folder.  opened: the window openFolderAsNewWindow made, its folder,
\* the folder's entries and pinned urls when it was called, and whether it returned;
\* replay: the tracked window the user closed, its folder and the urls of its
\* pinned tabs that a completed Tab->Bookmark pass had saved as pinned.
NoClosed == [win |-> 0, folder |-> 0, bms |-> <<>>]
NoExt ==
  [n |-> 0, wins |-> 1, unsynced |-> {}, closed |-> NoClosed, added |-> 0,
   opened |-> [win |-> 0, folder |-> 0, bms |-> <<>>, pinned |-> {}, done |-> FALSE],
   replay |-> [win |-> 0, folder |-> 0, urls |-> {}]]

\* ------------------------------------------------------------ closed system
\* A tracked window and its folder with arbitrary contents and one notification
\* in flight, and nothing changing the tabs or bookmarks from outside: the
\* state after initialize() has loaded a mapping whose window is still open.
RECURSIVE SeqsUpTo(_, _)
SeqsUpTo(S, n) ==
  IF n = 0 THEN {<<>>}
  ELSE LET shorter == SeqsUpTo(S, n - 1)
       IN shorter \cup {Append(s, x) : s \in {t \in shorter : Len(t) = n - 1}, x \in S}

SourceTabUrls == {"a", "b", "c", "about:config"}
TargetBmUrls == {"a", "b", "d", NoUrl}
SourceBmUrls == {"a", "b", "c", NoUrl}
TargetTabUrls == {"a", "b", "d", "about:config"}

MkTabs(urls, np) ==
  [n \in 1..Len(urls) |->
     [id |-> n, url |-> urls[n], title |-> PageTitle(urls[n]), pinned |-> n <= np]]

MkBms(urls, title) ==
  [n \in 1..Len(urls) |-> [id |-> n, url |-> urls[n], title |-> title]]

\* the notifications of a change of the tabs of window 1: a tab was moved, was
\* dragged in from another window or was dragged out to another window
TabTriggers ==
  {Ev("tabMoved", 1, 0, NoUrl, 0, FALSE),
   Ev("tabAttached", 1, 0, NoUrl, 0, FALSE),
   Ev("tabDetached", 1, 0, NoUrl, 0, FALSE)}

InitMapped(trigger, tabChoices, bmChoices, titleChoices, pinnedChoices) ==
  /\ live = {1}
  /\ \E urls \in tabChoices, np \in 0..1 :
       /\ np <= Len(urls)
       /\ tabs = [w \in Windows |-> IF w = 1 THEN MkTabs(urls, np) ELSE <<>>]
  /\ folders = {1}
  /\ \E urls \in bmChoices, title \in titleChoices :
       /\ (urls = <<>> => title = "t")
       /\ bms = [f \in Folders |-> IF f = 1 THEN MkBms(urls, title) ELSE <<>>]
  /\ windowMappings = [w \in Windows |-> IF w = 1 THEN 1 ELSE None]
  /\ \E pin \in pinnedChoices :
       pinnedTabsByFolder = [f \in Folders |-> IF f = 1 THEN pin ELSE NoPinned]
  /\ folderLastUsed = [f \in Folders |-> IF f = 1 THEN 1 ELSE 0]
  /\ storage = [mappings |-> windowMappings, pinned |-> pinnedTabsByFolder,
                lastUsed |-> folderLastUsed]
  /\ isSyncing = FALSE
  /\ pendingSyncs = <<>>
  /\ events = <<trigger>>
  /\ passes = <<>>
  /\ ops = <<>>
  /\ ext = NoExt
  /\ lastPass = NoPass

\* the tabs of the tracked window were changed, or an entry of the tracked
\* folder was removed
InitSync ==
  \/ \E trigger \in TabTriggers :
       InitMapped(trigger,
                  SeqsUpTo(SourceTabUrls, MaxSource), SeqsUpTo(TargetBmUrls, MaxTarget),
                  Titles, {NoPinned})
  \/ InitMapped(Ev("bmRemoved", 0, 1, NoUrl, 0, FALSE),
                SeqsUpTo(TargetTabUrls, MaxTarget), SeqsUpTo(SourceBmUrls, MaxSource),
                {"t"},
                {NoPinned, [has |-> TRUE, urls |-> {"a"}], [has |-> TRUE, urls |-> {"b"}]})

NextSync ==
  \/ OnTabCreated \/ OnTabRemoved \/ OnTabUpdated \/ OnTabMoved
  \/ OnTabAttached \/ OnTabDetached
  \/ OnWindowRemoved
  \/ OnBookmarkCreated \/ OnBookmarkRemoved
  \/ OnBookmarkChanged \/ OnBookmarkChangedResume
  \/ OnBookmarkMoved
  \/ T2BStep \/ T2BEnd \/ B2TStep \/ B2TEnd

SpecSync == InitSync /\ [][NextSync]_vars

\* The event loop runs every listener whose notification has arrived and
\* resumes every function whose await has settled.
SyncFairness ==
  /\ WF_vars(\/ OnTabCreated \/ OnTabRemoved \/ OnTabUpdated \/ OnTabMoved
             \/ OnTabAttached \/ OnTabDetached
             \/ OnWindowRemoved
             \/ OnBookmarkCreated \/ OnBookmarkRemoved
             \/ OnBookmarkChanged \/ OnBookmarkChangedResume
             \/ OnBookmarkMoved)
  /\ WF_vars(T2BStep \/ T2BEnd \/ B2TStep \/ B2TEnd)

\* The closed system from a few chosen contents, among them a window with two
\* tabs of one url: what the engine does when left alone for ever.
InitSettle ==
  \/ \E trigger \in TabTriggers :
       InitMapped(trigger,
                  {<<"a", "a", "b">>, <<"a">>}, {<<"a", "b">>, <<"b">>},
                  Titles, {NoPinned})
  \/ InitMapped(Ev("bmRemoved", 0, 1, NoUrl, 0, FALSE),
                {<<"a">>}, {<<>>, <<"a", "b">>},
                {"t"}, {NoPinned, [has |-> TRUE, urls |-> {"a"}]})

SpecSettle == InitSettle /\ [][NextSync]_vars /\ SyncFairness

\* Two tracked windows, window 1 with folder 1 and window 2 with folder 2, and
\* three notifications waiting: the first starts a pass for window 1 (or, for
\* a bookmark moved from folder 1 to folder 2, for window 2), the other two are
\* a moved tab of window 2 and a moved tab of window 1.
InitPair ==
  /\ live = {1, 2}
  /\ folders = {1, 2}
  /\ windowMappings = [w \in Windows |-> w]
  /\ \E trigger \in TabTriggers \cup {Ev("bmRemoved", 0, 1, NoUrl, 0, FALSE),
                                      EvMoved(2, 1)},
        urls1 \in {<<"a", "a", "b">>, <<"a">>},
        entries1 \in {<<>>, <<"a", "b">>, <<"b">>},
        title \in Titles,
        pin \in {NoPinned, [has |-> TRUE, urls |-> {"a"}]} :
       /\ (entries1 = <<>> => title = "t")
       /\ tabs = [w \in Windows |->
                    IF w = 1 THEN MkTabs(urls1, 0)
                    ELSE [n \in 1..2 |->
                            [id |-> 10 + n, url |-> <<"b", "c">>[n],
                             title |-> "t", pinned |-> FALSE]]]
       /\ bms = [f \in Folders |->
                   IF f = 1 THEN MkBms(entries1, title)
                   ELSE IF f = 2
                   THEN [n \in 1..2 |->
                           [id |-> 10 + n, url |-> <<"c", "b">>[n], title |-> "t"]]
                   ELSE <<>>]
       /\ pinnedTabsByFolder = [f \in Folders |-> IF f = 1 THEN pin ELSE NoPinned]
       /\ events = <<trigger,
                     Ev("tabMoved", 2, 0, NoUrl, 0, FALSE),
                     Ev("tabMoved", 1, 0, NoUrl, 0, FALSE)>>
  /\ folderLastUsed = [f \in Folders |-> IF f \in SavedFolders THEN 1 ELSE 0]
  /\ storage = [mappings |-> windowMappings, pinned |-> pinnedTabsByFolder,
                lastUsed |-> folderLastUsed]
  /\ isSyncing = FALSE
  /\ pendingSyncs = <<>>
  /\ passes = <<>>
  /\ ops = <<>>
  /\ ext = NoExt
  /\ lastPass = NoPass

SpecPair == InitPair /\ [][NextSync]_vars

\* ------------------------------------------------------------ the popup's operations
\* Date.now(): not before any stamp already given
Now == {s \in 1..MaxNow : \A f \in Folders : folderLastUsed[f] <= s}

\* The user does at most MaxExternal things; opening a folder as a window, which
\* sets off the longest chain of calls, is then the only thing the user does.
OpenCost == MaxExternal
UserBudget(cost) == ext.n + cost <= MaxExternal

\* lines 90-92: the mapping is recorded and saved
AssociateWindowWithFolder(windowId, folderId) ==
  /\ UserBudget(1)
  /\ windowId \in live /\ folderId \in folders
  /\ windowMappings' = [windowMappings EXCEPT ![windowId] = folderId]
  /\ storage' = [storage EXCEPT !.mappings = windowMappings']
  /\ ops' = Append(ops, NewOp("associate", windowId, folderId, "awaitSave"))
  /\ ext' = [ext EXCEPT !.n = @ + 1, !.closed = NoClosed, !.added = 0]
  /\ UNCHANGED <<browserVars, pinnedTabsByFolder, folderLastUsed, isSyncing,
                 pendingSyncs, events, passes, lastPass>>

\* lines 95 and 81-83: updateFolderLastUsed
AssociateStamp(n) ==
  /\ n \in 1..Len(ops)
  /\ ops[n].kind = "associate" /\ ops[n].pc = "awaitSave"
  /\ \E now \in Now :
       folderLastUsed' = [folderLastUsed EXCEPT ![ops[n].folder] = now]
  /\ storage' = [storage EXCEPT !.lastUsed = folderLastUsed']
  /\ ops' = [ops EXCEPT ![n].pc = "awaitLastUsed"]
  /\ UNCHANGED <<browserVars, windowMappings, pinnedTabsByFolder, isSyncing,
                 pendingSyncs, events, passes, ext, lastPass>>

\* associateWindowWithFolder as it would be without the initial sync of line 98
AssociateWithoutSync(n) ==
  /\ n \in 1..Len(ops)
  /\ ops[n].kind = "associate" /\ ops[n].pc = "awaitLastUsed"
  /\ ops' = RemoveAt(ops, n)
  /\ UNCHANGED <<browserVars, memoryVars, isSyncing, pendingSyncs, events, passes,
                 ext, lastPass>>

\* line 98: the initial sync; nothing follows it
AssociateSync(n) ==
  /\ n \in 1..Len(ops)
  /\ ops[n].kind = "associate" /\ ops[n].pc = "awaitLastUsed"
  /\ SetGuard(SyncTabsToBookmarks(Guard, ops[n].win))
  /\ ops' = RemoveAt(ops, n)
  /\ UNCHANGED <<browserVars, memoryVars, events, ext, lastPass>>

\* bookmarks.create gives the new folder an id no folder has
NewFolderId ==
  CHOOSE f \in Folders \ folders : \A g \in Folders \ folders : f <= g

\* lines 104-108: createFolderForWindow, called from the popup for the current
\* window, creates a folder with no entries; the folder
\* is created in the browser's default folder, which is none of Folders, and
\* bookmarks.onCreated is notified of a node without a url
CreateFolderForWindow(windowId) ==
  /\ UserBudget(1)
  /\ windowId \in live
  /\ folders # Folders
  /\ Len(events) + 1 <= MaxEvents
  /\ folders' = folders \cup {NewFolderId}
  /\ bms' = [bms EXCEPT ![NewFolderId] = <<>>]
  /\ events' = Append(events, Ev("bmCreated", 0, 0, NoUrl, 0, FALSE))
  /\ ops' = Append(ops, NewOp("createFolder", windowId, NewFolderId, "awaitCreate"))
  /\ ext' = [ext EXCEPT !.n = @ + 1, !.closed = NoClosed, !.added = 0]
  /\ UNCHANGED <<live, tabs, memoryVars, isSyncing, pendingSyncs, passes, lastPass>>

\* lines 110 and 90-92: associateWindowWithFolder is called with the new
\* folder's id and records and saves the mapping
CreateFolderAssociate(n) ==
  /\ n \in 1..Len(ops)
  /\ ops[n].kind = "createFolder" /\ ops[n].pc = "awaitCreate"
  /\ windowMappings' = [windowMappings EXCEPT ![ops[n].win] = ops[n].folder]
  /\ storage' = [storage EXCEPT !.mappings = windowMappings']
  /\ ops' = [ops EXCEPT ![n].kind = "associate", ![n].pc = "awaitSave"]
  /\ UNCHANGED <<browserVars, pinnedTabsByFolder, folderLastUsed, isSyncing,
                 pendingSyncs, events, passes, ext, lastPass>>

\* disassociateWindow as it would be if it dropped the folder's pinned set
\* along with the mapping
DisassociateWindowAndPinned(windowId) ==
  /\ UserBudget(1)
  /\ windowMappings[windowId] # None
  /\ windowMappings' = [windowMappings EXCEPT ![windowId] = None]
  /\ pinnedTabsByFolder' =
       [pinnedTabsByFolder EXCEPT
          ![windowMappings[windowId]] = [has |-> FALSE, urls |-> {}]]
  /\ storage' = [storage EXCEPT !.mappings = windowMappings',
                                !.pinned = pinnedTabsByFolder']
  /\ ext' = [ext EXCEPT !.n = @ + 1, !.unsynced = @ \cup {windowId}]
  /\ UNCHANGED <<browserVars, folderLastUsed, isSyncing, pendingSyncs, events,
                 passes, ops, lastPass>>

\* lines 117-120
DisassociateWindow(windowId) ==
  /\ UserBudget(1)
  /\ windowMappings[windowId] # None
  /\ windowMappings' = [windowMappings EXCEPT ![windowId] = None]
  /\ storage' = [storage EXCEPT !.mappings = windowMappings']
  /\ ext' = [ext EXCEPT !.n = @ + 1, !.unsynced = @ \cup {windowId}]
  /\ UNCHANGED <<browserVars, pinnedTabsByFolder, folderLastUsed, isSyncing,
                 pendingSyncs, events, passes, ops, lastPass>>

\* line 131
UrlBookmarks(bs) == SelectSeq(bs, LAMBDA b : IsUrlBookmark(b.url))

\* windows.create(): the new window has one blank tab; its tab-created
\* notification reaches the listener before the window has a mapping
NewWindowId == ext.wins + 1

\* The folder of the window the user closed with pinned tabs is opened again
\* whatever the user did before.
ReopensClosed(folderId) ==
  ext.replay.folder = folderId /\ ext.replay.urls # {}

\* lines 125-127: openFolderAsNewWindow reads the folder
OpenFolderAsNewWindow(folderId) ==
  /\ UserBudget(OpenCost) \/ ReopensClosed(folderId)
  /\ folderId \in folders
  /\ ext.opened.folder = 0
  /\ NewWindowId \in Windows
  /\ ops' = Append(ops, [NewOp("open", 0, folderId, "awaitSubTree")
                           EXCEPT !.bms = bms[folderId]])
  /\ ext' = [ext EXCEPT
               !.n = @ + OpenCost,
               !.opened = [win |-> 0, folder |-> folderId,
                           bms |-> bms[folderId],
                           pinned |-> IF pinnedTabsByFolder[folderId].has
                                      THEN pinnedTabsByFolder[folderId].urls
                                      ELSE {},
                           done |-> FALSE]]
  /\ UNCHANGED <<browserVars, memoryVars, isSyncing, pendingSyncs, events,
                 passes, lastPass>>

\* lines 128-148: the pinned urls are read, the window is created
OpenCreateWindow(n) ==
  /\ n \in 1..Len(ops)
  /\ ops[n].kind = "open" /\ ops[n].pc = "awaitSubTree"
  /\ LET w == NewWindowId
         blank == [id |-> FreshTabId, url |-> BlankUrl, title |-> "t",
                   pinned |-> FALSE]
     IN /\ live' = live \cup {w}
        /\ tabs' = [tabs EXCEPT ![w] = <<blank>>]
        /\ ops' = [ops EXCEPT
                     ![n].win = w,
                     ![n].pinned = IF pinnedTabsByFolder[ops[n].folder].has
                                   THEN pinnedTabsByFolder[ops[n].folder].urls
                                   ELSE {},
                     ![n].pc = IF UrlBookmarks(ops[n].bms) = <<>>
                               THEN "awaitQuery" ELSE "awaitWindow"]
        /\ ext' = [ext EXCEPT !.wins = @ + 1, !.opened.win = w]
  /\ UNCHANGED <<folders, bms, memoryVars, isSyncing, pendingSyncs, events,
                 passes, lastPass>>

\* lines 151-152: tabs.query gives the blank tab's id
OpenQuery(n) ==
  /\ n \in 1..Len(ops)
  /\ ops[n].kind = "open" /\ ops[n].pc = "awaitWindow"
  /\ ops' = [ops EXCEPT
               ![n].blank = IF Len(tabs[ops[n].win]) > 0
                            THEN tabs[ops[n].win][1].id ELSE 0,
               ![n].pc = "awaitQuery"]
  /\ UNCHANGED <<browserVars, memoryVars, isSyncing, pendingSyncs, events,
                 passes, ext, lastPass>>

\* lines 136-137 and 155-156: the mapping is recorded and saved
OpenAssociate(n) ==
  /\ n \in 1..Len(ops)
  /\ ops[n].kind = "open" /\ ops[n].pc = "awaitQuery"
  /\ windowMappings' = [windowMappings EXCEPT ![ops[n].win] = ops[n].folder]
  /\ storage' = [storage EXCEPT !.mappings = windowMappings']
  /\ ops' = [ops EXCEPT ![n].pc = "awaitSave"]
  /\ UNCHANGED <<browserVars, pinnedTabsByFolder, folderLastUsed, isSyncing,
                 pendingSyncs, events, passes, ext, lastPass>>

\* lines 138 and 159: updateFolderLastUsed
OpenStamp(n) ==
  /\ n \in 1..Len(ops)
  /\ ops[n].kind = "open" /\ ops[n].pc = "awaitSave"
  /\ \E now \in Now :
       folderLastUsed' = [folderLastUsed EXCEPT ![ops[n].folder] = now]
  /\ storage' = [storage EXCEPT !.lastUsed = folderLastUsed']
  /\ ops' = [ops EXCEPT ![n].pc = "awaitLastUsed", ![n].i = 0]
  /\ UNCHANGED <<browserVars, windowMappings, pinnedTabsByFolder, isSyncing,
                 pendingSyncs, events, passes, ext, lastPass>>

\* lines 163-177: one tab per url bookmark, then the blank tab is removed
OpenNextCall(o) ==
  LET urlBookmarks == UrlBookmarks(o.bms)
  IN IF o.i < Len(urlBookmarks)
     THEN [Call("tabs.create") EXCEPT
             !.win = o.win, !.url = urlBookmarks[o.i + 1].url,
             !.pinned = urlBookmarks[o.i + 1].url \in o.pinned]
     ELSE IF o.i = Len(urlBookmarks) /\ Len(urlBookmarks) > 0 /\ o.blank # 0
          THEN [Call("tabs.remove") EXCEPT !.id = o.blank]
          ELSE Call("return")

OpenPopulate(n) ==
  /\ n \in 1..Len(ops)
  /\ ops[n].kind = "open" /\ ops[n].pc = "awaitLastUsed"
  /\ OpenNextCall(ops[n]).api # "return"
  /\ LET e == Effect(OpenNextCall(ops[n]))
     IN /\ Len(events) + Len(e.emits) <= MaxEvents
        /\ live' = e.live
        /\ tabs' = e.tabs
        /\ events' = events \o e.emits
        /\ ops' = IF e.ok THEN [ops EXCEPT ![n].i = @ + 1]
                  ELSE [ops EXCEPT ![n].pc = "awaitThrow"]
  /\ UNCHANGED <<folders, bms, memoryVars, isSyncing, pendingSyncs, passes,
                 ext, lastPass>>

\* lines 139 and 179: the operation returns (or has thrown)
OpenReturn(n) ==
  /\ n \in 1..Len(ops)
  /\ ops[n].kind = "open"
  /\ \/ ops[n].pc = "awaitThrow"
     \/ ops[n].pc = "awaitLastUsed" /\ OpenNextCall(ops[n]).api = "return"
  /\ ops' = RemoveAt(ops, n)
  /\ ext' = [ext EXCEPT !.opened.done = ops[n].pc # "awaitThrow"]
  /\ UNCHANGED <<browserVars, memoryVars, isSyncing, pendingSyncs, events,
                 passes, lastPass>>

\* ------------------------------------------------------------------ the user
UserChange(e, h) ==
  /\ UserBudget(1)
  /\ Len(events) + Len(e.emits) <= MaxEvents
  /\ live' = e.live
  /\ tabs' = e.tabs
  /\ folders' = e.folders
  /\ bms' = e.bms
  /\ events' = events \o e.emits
  /\ ext' = [h EXCEPT !.n = @ + 1]
  /\ UNCHANGED <<memoryVars, isSyncing, pendingSyncs, passes, ops, lastPass>>

\* the user's own changes of a folder end the watch on the closed window's folder
Touched(f) ==
  IF ext.closed.folder = f THEN [ext EXCEPT !.closed = NoClosed] ELSE ext

UserCreateTab(w, url) ==
  /\ w \in live /\ Len(tabs[w]) < MaxSource
  /\ UserChange(TabCreate([Call("tabs.create") EXCEPT !.win = w, !.url = url]), ext)

UserRemoveTab(w, pos) ==
  /\ w \in live /\ pos \in 1..Len(tabs[w]) /\ Len(tabs[w]) > 1
  /\ UserChange(TabRemove([Call("tabs.remove") EXCEPT !.id = tabs[w][pos].id]), ext)

UserMoveTab(w, pos, index) ==
  /\ w \in live /\ pos \in 2..Len(tabs[w]) /\ index = 0
  /\ UserChange(TabMoveCall([Call("tabs.move") EXCEPT
                               !.id = tabs[w][pos].id, !.win = w,
                               !.index = index]), ext)

UserPinTab(w, pos) ==
  /\ w \in live /\ pos \in 1..Len(tabs[w])
  /\ UserChange(TabUpdate([Call("tabs.update") EXCEPT
                             !.id = tabs[w][pos].id,
                             !.pinned = ~tabs[w][pos].pinned]), ext)

\* The user drags an unpinned tab out of a window that keeps another tab, to
\* the end of another open window or out into a new window of its own.
UserDragTab(w, pos, target) ==
  /\ w \in live /\ pos \in 1..Len(tabs[w]) /\ Len(tabs[w]) > 1
  /\ ~tabs[w][pos].pinned
  /\ target \in Windows \ {w}
  /\ IF target \in live THEN Len(tabs[target]) < MaxSource
     ELSE target = NewWindowId
  /\ UserChange([Same EXCEPT
                   !.live = live \cup {target},
                   !.tabs = [tabs EXCEPT
                               ![w] = RemoveAt(@, pos),
                               ![target] = IF target \in live
                                           THEN Append(@, tabs[w][pos])
                                           ELSE <<tabs[w][pos]>>],
                   !.emits = <<Ev("tabDetached", w, 0, NoUrl, 0, FALSE),
                               Ev("tabAttached", target, 0, NoUrl, 0, FALSE)>>],
                [ext EXCEPT !.wins = IF target \in live THEN @ ELSE @ + 1])

\* The urls of the pinned tabs of tracked window w that the last pass, a
\* completed Tab->Bookmark pass of w, has saved as pinned.
SyncedPinnedUrls(w) ==
  IF lastPass.dir = "t2b" /\ lastPass.ok /\ lastPass.win = w
     /\ lastPass.folder = windowMappings[w]
  THEN {tabs[w][k].url : k \in {j \in 1..Len(tabs[w]) : tabs[w][j].pinned}}
         \cap lastPass.pinned.urls
         \cap pinnedTabsByFolder[windowMappings[w]].urls
  ELSE {}

\* the tabs go with the window-closing flag, then the window-removed notification
UserCloseWindow(w) ==
  /\ w \in live /\ ext.closed.win = 0
  /\ UserChange([Same EXCEPT
                   !.live = live \ {w},
                   !.tabs = [tabs EXCEPT ![w] = <<>>],
                   !.emits = <<Ev("tabRemoved", w, 0, NoUrl, 0, TRUE),
                               Ev("windowRemoved", w, 0, NoUrl, 0, FALSE)>>],
                IF windowMappings[w] = None THEN ext
                ELSE [ext EXCEPT
                        !.closed =
                          IF /\ \A n \in 1..Len(passes) : passes[n].dir # "t2b"
                             /\ \A n \in 1..Len(ops) :
                                  ops[n].kind \notin {"associate", "createFolder"}
                          THEN [win |-> w, folder |-> windowMappings[w],
                                bms |-> bms[windowMappings[w]]]
                          ELSE @,
                        !.replay =
                          IF @.win = 0
                          THEN [win |-> w, folder |-> windowMappings[w],
                                urls |-> SyncedPinnedUrls(w)]
                          ELSE @])

UserCreateBookmark(f, url, index) ==
  /\ f \in folders /\ Len(bms[f]) < MaxSource /\ index = Len(bms[f])
  /\ LET e == BmCreate([Call("bookmarks.create") EXCEPT
                          !.folder = f, !.url = url, !.title = "u",
                          !.index = index])
     IN UserChange(e, IF /\ WindowOfFolder(f) # 0 /\ ext.added = 0
                         /\ url \in NormalUrls
                         /\ pendingSyncs = <<>> /\ events = <<>>
                         /\ \A n \in 1..Len(passes) :
                              passes[n].dir = "t2b" => passes[n].pc # "awaitQuery"
                         /\ \A n \in 1..Len(ops) :
                              ops[n].kind \notin {"associate", "createFolder"}
                      THEN [Touched(f) EXCEPT !.added = e.newId]
                      ELSE Touched(f))

UserRemoveBookmark(f, pos) ==
  /\ f \in folders /\ pos \in 1..Len(bms[f])
  /\ UserChange(BmRemove([Call("bookmarks.remove") EXCEPT !.id = bms[f][pos].id]),
                IF ext.added = bms[f][pos].id
                THEN [Touched(f) EXCEPT !.added = 0] ELSE Touched(f))

\* the user moves the entry at pos of folder f to the front of the folder
\* (g = f) or to the end of another folder g
UserMoveBookmark(f, pos, g) ==
  /\ f \in folders /\ g \in folders
  /\ IF g = f
     THEN /\ pos \in 2..Len(bms[f])
          /\ UserChange(BmMove([Call("bookmarks.move") EXCEPT
                                  !.id = bms[f][pos].id, !.index = 0]), Touched(f))
     ELSE /\ pos \in 1..Len(bms[f]) /\ Len(bms[g]) < MaxSource
          /\ UserChange([Same EXCEPT
                           !.bms = [bms EXCEPT ![f] = RemoveAt(@, pos),
                                               ![g] = Append(@, bms[f][pos])],
                           !.emits = <<EvMoved(g, f)>>],
                        [ext EXCEPT
                           !.closed = IF @.folder \in {f, g} THEN NoClosed ELSE @,
                           !.added = IF @ = bms[f][pos].id THEN 0 ELSE @])

\* -------------------------------------------------------------- whole system
\* Window 1 is tracked with folder 1 and the two agree, with np tabs pinned and
\* saved as pinned by a completed Tab->Bookmark pass; folder 2 is a saved group
\* no window is tracked with, its entries titled title2.
InitTracked(pinnedCounts, title2) ==
  /\ live = {1}
  /\ folders = {1, 2}
  /\ bms = [f \in Folders |->
              IF f = 1 THEN MkBms(<<"a", "b">>, "t")
              ELSE IF f = 2
              THEN [n \in 1..3 |-> [id |-> 2 + n, url |-> <<"a", "b", "c">>[n],
                                    title |-> title2]]
              ELSE <<>>]
  /\ windowMappings = [w \in Windows |-> IF w = 1 THEN 1 ELSE None]
  /\ \E np \in pinnedCounts, pin \in {{}, {"b"}} :
       /\ tabs = [w \in Windows |->
                    IF w = 1 THEN MkTabs(<<"a", "b">>, np) ELSE <<>>]
       /\ pinnedTabsByFolder =
            [f \in Folders |->
               IF f = 1 THEN [has |-> TRUE, urls |-> IF np = 1 THEN {"a"} ELSE {}]
               ELSE IF f = 2 THEN [has |-> TRUE, urls |-> pin]
               ELSE NoPinned]
       /\ lastPass =
            IF np = 0 THEN NoPass
            ELSE [NoPass EXCEPT
                    !.dir = "t2b", !.win = 1, !.folder = 1, !.ok = TRUE,
                    !.tabs0 = tabs[1], !.bms0 = bms[1],
                    !.tabs = tabs[1], !.bms = bms[1],
                    !.pinned = pinnedTabsByFolder[1]]
  /\ folderLastUsed = [f \in Folders |-> IF f \in SavedFolders THEN 1 ELSE 0]
  /\ storage = [mappings |-> windowMappings, pinned |-> pinnedTabsByFolder,
                lastUsed |-> folderLastUsed]
  /\ isSyncing = FALSE
  /\ pendingSyncs = <<>>
  /\ events = <<>>
  /\ passes = <<>>
  /\ ops = <<>>
  /\ ext = NoExt

Init == InitTracked({0}, "t")

Associate == \E w \in Windows, f \in Folders : AssociateWindowWithFolder(w, f)
AssociateStep == \E n \in 1..Len(ops) : AssociateStamp(n) \/ AssociateSync(n)
Disassociate == \E w \in Windows : DisassociateWindow(w)
CreateFolder == \E w \in Windows : CreateFolderForWindow(w)
CreateFolderStep == \E n \in 1..Len(ops) : CreateFolderAssociate(n)
OpenFolder == \E f \in Folders : OpenFolderAsNewWindow(f)
OpenWindowStep == \E n \in 1..Len(ops) : OpenCreateWindow(n) \/ OpenQuery(n)
OpenMapStep == \E n \in 1..Len(ops) : OpenAssociate(n) \/ OpenStamp(n)
OpenTabStep == \E n \in 1..Len(ops) : OpenPopulate(n)
OpenEnd == \E n \in 1..Len(ops) : OpenReturn(n)
UserTabCreate == \E w \in Windows, url \in {"c", "about:config"} : UserCreateTab(w, url)
UserTabRemove == \E w \in Windows, pos \in 1..MaxSource : UserRemoveTab(w, pos)
UserTabMove == \E w \in Windows, pos \in 1..MaxSource : UserMoveTab(w, pos, 0)
UserTabPin == \E w \in Windows, pos \in 1..MaxSource : UserPinTab(w, pos)
UserTabDrag ==
  \E w \in Windows, pos \in 1..MaxSource, target \in Windows : UserDragTab(w, pos, target)
UserWindowClose == \E w \in Windows : UserCloseWindow(w)
UserBookmarkCreate ==
  \E f \in Folders, url \in {"c", "about:config"}, index \in 0..MaxSource :
    UserCreateBookmark(f, url, index)
UserBookmarkRemove == \E f \in Folders, pos \in 1..MaxSource : UserRemoveBookmark(f, pos)
UserBookmarkMove ==
  \E f \in Folders, pos \in 1..MaxSource, g \in Folders : UserMoveBookmark(f, pos, g)

Next ==
  \/ NextSync
  \/ Associate \/ AssociateStep \/ Disassociate
  \/ CreateFolder \/ CreateFolderStep
  \/ OpenFolder \/ OpenWindowStep \/ OpenMapStep \/ OpenTabStep \/ OpenEnd
  \/ UserTabCreate \/ UserTabRemove \/ UserTabMove \/ UserTabPin \/ UserTabDrag
  \/ UserWindowClose
  \/ UserBookmarkCreate \/ UserBookmarkRemove \/ UserBookmarkMove

Spec == Init /\ [][Next]_vars

\* ------------------------------------------------------------------ start-up
\* lines 29-43: the persisted record is loaded into memory, windows.getAll is called
InitializeLoad(n) ==
  /\ n \in 1..Len(ops)
  /\ ops[n].kind = "initialize" /\ ops[n].pc = "awaitGet"
  /\ windowMappings' = ops[n].data.mappings
  /\ pinnedTabsByFolder' = ops[n].data.pinned
  /\ folderLastUsed' = ops[n].data.lastUsed
  /\ ops' = [ops EXCEPT ![n].wins = live, ![n].pc = "awaitWindows"]
  /\ UNCHANGED <<browserVars, storage, isSyncing, pendingSyncs, events, passes,
                 ext, lastPass>>

\* the clean-up as it would be without lines 46-50
InitializeSaveOnly(n) ==
  /\ n \in 1..Len(ops)
  /\ ops[n].kind = "initialize" /\ ops[n].pc = "awaitWindows"
  /\ storage' = [storage EXCEPT !.mappings = windowMappings]
  /\ ops' = [ops EXCEPT ![n].pc = "awaitSave"]
  /\ UNCHANGED <<browserVars, windowMappings, pinnedTabsByFolder, folderLastUsed,
                 isSyncing, pendingSyncs, events, passes, ext, lastPass>>

\* lines 44-52: the mappings of windows that are not there are deleted, the
\* mappings are saved
InitializePrune(n) ==
  /\ n \in 1..Len(ops)
  /\ ops[n].kind = "initialize" /\ ops[n].pc = "awaitWindows"
  /\ windowMappings' =
       [w \in Windows |-> IF w \in ops[n].wins THEN windowMappings[w] ELSE None]
  /\ storage' = [storage EXCEPT !.mappings = windowMappings']
  /\ ops' = [ops EXCEPT ![n].pc = "awaitSave"]
  /\ UNCHANGED <<browserVars, pinnedTabsByFolder, folderLastUsed, isSyncing,
                 pendingSyncs, events, passes, ext, lastPass>>

\* lines 54-57
InitializeReturn(n) ==
  /\ n \in 1..Len(ops)
  /\ ops[n].kind = "initialize" /\ ops[n].pc = "awaitSave"
  /\ ops' = RemoveAt(ops, n)
  /\ UNCHANGED <<browserVars, memoryVars, isSyncing, pendingSyncs, events,
                 passes, ext, lastPass>>

\* The extension is loaded: memory is empty, initialize has called
\* storage.local.get; the persisted record is any one an earlier session can
\* have left, some of its windows are there, each with one tab.
InitBoot ==
  /\ live \in SUBSET Windows /\ live # {}
  /\ tabs = [w \in Windows |->
               IF w \in live
               THEN <<[id |-> w, url |-> "a", title |-> "t", pinned |-> FALSE]>>
               ELSE <<>>]
  /\ folders = SavedFolders
  /\ bms = [f \in Folders |-> <<>>]
  /\ \E m \in [Windows -> SavedFolders \cup {None}],
        p \in [SavedFolders -> {NoPinned, [has |-> TRUE, urls |-> {}],
                                          [has |-> TRUE, urls |-> {"a"}]}],
        l \in [SavedFolders -> 0..MaxNow] :
       storage =
         [mappings |-> m,
          pinned |-> [f \in Folders |-> IF f \in SavedFolders THEN p[f] ELSE NoPinned],
          lastUsed |-> [f \in Folders |-> IF f \in SavedFolders THEN l[f] ELSE 0]]
  /\ windowMappings = NoData.mappings
  /\ pinnedTabsByFolder = NoData.pinned
  /\ folderLastUsed = NoData.lastUsed
  /\ isSyncing = FALSE
  /\ pendingSyncs = <<>>
  /\ events = <<>>
  /\ passes = <<>>
  /\ ops = <<[NewOp("initialize", 0, 0, "awaitGet") EXCEPT !.data = storage]>>
  /\ ext = NoExt
  /\ lastPass = NoPass

InitializeStep ==
  \E n \in 1..Len(ops) : InitializeLoad(n) \/ InitializePrune(n) \/ InitializeReturn(n)

\* windows may be closed while initialize is suspended
NextBoot ==
  \/ InitializeStep
  \/ UserWindowClose \/ OnTabRemoved \/ OnWindowRemoved

SpecBoot == InitBoot /\ [][NextBoot]_vars

\* The whole system from the state after the user has pinned tab a of window 1
\* and the pass that followed has completed; the entries of folder 2 have
\* titles that are not the titles of their pages.
InitReplay == InitTracked({1}, "u")

\* What the user does there: pin or unpin a tab, drag a tab out, remove a
\* bookmark, close a window, open a folder as a new window.
NextReplay ==
  \/ NextSync
  \/ OpenFolder \/ OpenWindowStep \/ OpenMapStep \/ OpenTabStep \/ OpenEnd
  \/ UserTabPin \/ UserTabDrag \/ UserWindowClose \/ UserBookmarkRemove

SpecReplay == InitReplay /\ [][NextReplay]_vars

\* Window 1 is tracked with folder 1 and two notifications about it have
\* arrived; window 2 is open and untracked, and folder 2 has never been used.
\* The popup is open in window 2 and the user associates that window with a
\* folder, up to MaxExternal times.
InitAssoc ==
  /\ live = {1, 2}
  /\ folders = {1, 2}
  /\ windowMappings = [w \in Windows |-> IF w = 1 THEN 1 ELSE None]
  /\ \E triggers \in {<<"tabAttached", "tabDetached">>, <<"bmRemoved", "tabMoved">>},
        urls1 \in {<<"a", "a", "b">>, <<"a">>},
        entries1 \in {<<>>, <<"a", "b">>},
        entries2 \in {<<>>, <<"c", "a">>},
        title \in Titles,
        pin \in {[has |-> TRUE, urls |-> {"a"}]} :
       /\ (entries1 = <<>> => title = "t")
       /\ tabs = [w \in Windows |->
                    IF w = 1 THEN MkTabs(urls1, 0)
                    ELSE [n \in 1..2 |->
                            [id |-> 10 + n, url |-> <<"b", "c">>[n],
                             title |-> "t", pinned |-> FALSE]]]
       /\ bms = [f \in Folders |->
                   IF f = 1 THEN MkBms(entries1, title)
                   ELSE IF f = 2
                   THEN [n \in 1..Len(entries2) |->
                           [id |-> 10 + n, url |-> entries2[n], title |-> "t"]]
                   ELSE <<>>]
       /\ pinnedTabsByFolder = [f \in Folders |-> IF f = 1 THEN pin ELSE NoPinned]
       /\ events = [k \in 1..2 |->
                      IF triggers[k] = "bmRemoved"
                      THEN Ev("bmRemoved", 0, 1, NoUrl, 0, FALSE)
                      ELSE Ev(triggers[k], 1, 0, NoUrl, 0, FALSE)]
  /\ folderLastUsed = [f \in Folders |-> 0]
  /\ storage = [mappings |-> windowMappings, pinned |-> pinnedTabsByFolder,
                lastUsed |-> folderLastUsed]
  /\ isSyncing = FALSE
  /\ pendingSyncs = <<>>
  /\ passes = <<>>
  /\ ops = <<>>
  /\ ext = NoExt
  /\ lastPass = NoPass

\* the popup's association of the window it is open in
AssociateCurrent == \E f \in Folders : AssociateWindowWithFolder(2, f)

NextAssoc == NextSync \/ AssociateCurrent \/ AssociateStep

SpecAssoc == InitAssoc /\ [][NextAssoc]_vars

\* Two tracked windows with notifications about both in flight, as in InitPair;
\* the user may stop tracking a window from the popup or close a window.
NextUnsync == NextSync \/ Disassociate \/ UserWindowClose

SpecUnsync == InitPair /\ [][NextUnsync]_vars

\* ------------------------------------------------------------------ claims
NormalTabs(ts) == SelectSeq(ts, LAMBDA t : ~SkipTabUrl(t.url))
CountUrl(s, url) == Cardinality({n \in 1..Len(s) : s[n].url = url})

\* C1: at most one reconciliation pass is past the guard at any time, and the
\* guard flag is set exactly while one is: no second invocation of
\* syncTabsToBookmarks or syncBookmarksToTabs reads or writes tabs, bookmarks or
\* the pinned set until the running pass has cleared the guard.
C1_OnePassAtATime ==
  /\ Len(passes) <= 1
  /\ isSyncing <=> Len(passes) = 1

\* a pass is suspended at an await and another invocation has been deferred
C1_PassRunningOtherDeferred ==
  /\ Len(passes) = 1 /\ isSyncing
  /\ passes[1].pc \notin {"awaitQuery", "awaitSubTree"}
  /\ Len(pendingSyncs) > 0

\* C2: a Tab->Bookmark pass that runs to completion leaves the folder's entry
\* urls equal to the window's tab urls in tab order, special-scheme tabs left
\* out, and every entry's title equal to its tab's title.  Stated for windows
\* whose tabs have pairwise distinct urls.
C2_TabOrderMirrored ==
  (lastPass.dir = "t2b" /\ lastPass.ok /\ NoDup(UrlsOf(lastPass.tabs)))
    => /\ UrlsOf(lastPass.bms) = UrlsOf(NormalTabs(lastPass.tabs))
       /\ \A n \in 1..Len(lastPass.bms) :
            lastPass.bms[n].title = NormalTabs(lastPass.tabs)[n].title

\* C3: a Bookmark->Tab pass that runs to completion leaves the window's
\* non-special tabs one per url entry of the folder, in the entries' order, each
\* pinned exactly when its url is in the stored pinned set.  Stated for passes
\* that find bookmarks with pairwise distinct normal urls in the folder and
\* unpinned tabs with pairwise distinct normal urls in the window, with an empty
\* stored pinned set.
C3_EntriesMirrored ==
  (/\ lastPass.dir = "b2t" /\ lastPass.ok
   /\ lastPass.bms = lastPass.bms0
   /\ NoDup(UrlsOf(lastPass.bms0))
   /\ \A n \in 1..Len(lastPass.bms0) : lastPass.bms0[n].url \in NormalUrls
   /\ NoDup(UrlsOf(lastPass.tabs0))
   /\ \A n \in 1..Len(lastPass.tabs0) :
        lastPass.tabs0[n].url \in NormalUrls /\ ~lastPass.tabs0[n].pinned
   /\ lastPass.pinned.urls = {})
    => /\ UrlsOf(NormalTabs(lastPass.tabs))
         = UrlsOf(SelectSeq(lastPass.bms, LAMBDA b : b.url # NoUrl))
       /\ \A n \in 1..Len(lastPass.tabs) : ~lastPass.tabs[n].pinned

\* C4: with no change from outside, the engine reaches and stays in a state
\* with the guard idle and the pending set empty: the notifications of the
\* passes' own writes do not keep starting passes forever.
C4_GuardSettles == <>[](~isSyncing /\ pendingSyncs = <<>>)

\* C5: a bookmark the user added to a tracked folder stays in the folder (while
\* the window stays open and tracked).
C5_AddedBookmarkKept ==
  (ext.added # 0 /\ ext.closed.win = 0 /\ ext.unsynced = {})
    => FolderOfBm(ext.added) # 0

\* C6: once a tracked window has been closed, the entries of its folder stay as
\* they were when it closed.
C6_ClosedFolderKept ==
  ext.closed.win # 0 => bms[ext.closed.folder] = ext.closed.bms

\* C7: disassociateWindow(w) removes the mapping of w from memory and from the
\* persisted record and changes nothing else: bookmarks, pinned sets, last-used
\* stamps, the other windows' mappings, the guard flag and the pending set stay.
C7_DisassociateFrame ==
  [][\A w \in Windows :
       DisassociateWindow(w) =>
         /\ windowMappings' = [windowMappings EXCEPT ![w] = None]
         /\ storage' = [storage EXCEPT !.mappings = windowMappings']
         /\ folders' = folders
         /\ bms' = bms
         /\ pinnedTabsByFolder' = pinnedTabsByFolder
         /\ folderLastUsed' = folderLastUsed
         /\ isSyncing' = isSyncing
         /\ pendingSyncs' = pendingSyncs]_vars

\* a window was disassociated while a pass was running and a request was pending
C7_DisassociatedDuringPass ==
  \E w \in ext.unsynced :
    /\ windowMappings[w] = None
    /\ isSyncing
    /\ \E f \in folders : Len(bms[f]) > 0 /\ pinnedTabsByFolder[f].has

\* C8: a Tab->Bookmark pass that follows a completed Tab->Bookmark pass of the
\* same window, with nothing changed in between, issues no bookmark create,
\* update, move or remove.  Stated for windows whose tabs have distinct urls.
C8_SecondPassIdle ==
  (/\ lastPass.dir = "t2b" /\ lastPass.ok
   /\ lastPass.prev = [dir |-> "t2b", win |-> lastPass.win, ok |-> TRUE]
   /\ NoDup(UrlsOf(lastPass.tabs)))
    => lastPass.writes = 0

\* C9: once openFolderAsNewWindow has returned for a folder with entries
\* [A,B,C] of distinct normal urls (none pinned) and a Tab->Bookmark pass of the
\* new window has ended with nothing left to run, the folder holds the same
\* three entries in the same order.
C9_RoundTripKept ==
  (/\ ext.opened.done
   /\ ext.opened.pinned = {}
   /\ Len(ext.opened.bms) = 3
   /\ lastPass.dir = "t2b" /\ lastPass.ok /\ lastPass.win = ext.opened.win
   /\ passes = <<>> /\ events = <<>> /\ pendingSyncs = <<>> /\ ops = <<>>
   /\ ext.n = OpenCost)
    => bms[ext.opened.folder] = ext.opened.bms

\* C10: after a completed Tab->Bookmark pass of a window with two tabs of the
\* same url U, the folder holds exactly one entry with url U.
C10_DuplicateCollapsed ==
  (lastPass.dir = "t2b" /\ lastPass.ok)
    => \A u \in NormalUrls :
         CountUrl(lastPass.tabs, u) = 2 => CountUrl(lastPass.bms, u) = 1

SpecialScheme(url) == Scheme(url) \in {"about:", "moz-extension:"}

\* C11: a Tab->Bookmark pass never creates an entry for a tab whose url starts
\* with about: or moz-extension:, and the index it gives an entry counts only
\* the tabs before it that are not skipped.
C11_SpecialTabsLeftOut ==
  \A n \in 1..Len(passes) :
    (passes[n].dir = "t2b"
     /\ passes[n].pc \in {"awaitUpdate", "awaitMove", "awaitCreate"})
      => /\ ~SpecialScheme(passes[n].tabs[passes[n].i + 1].url)
         /\ passes[n].bookmarkIndex =
              Cardinality({m \in 1..passes[n].i :
                             /\ passes[n].tabs[m].url # NoUrl
                             /\ ~SpecialScheme(passes[n].tabs[m].url)})
         /\ \A f \in Folders : \A k \in 1..Len(bms[f]) :
              (passes[n].pc = "awaitCreate" /\ bms[f][k].id = passes[n].newId)
                => /\ bms[f][k].url = passes[n].tabs[passes[n].i + 1].url
                   /\ ~SpecialScheme(bms[f][k].url)

\* a pass has created an entry for a tab that comes after a special-scheme tab
C11_CreatedAfterSpecialTab ==
  \E n \in 1..Len(passes) :
    /\ passes[n].dir = "t2b" /\ passes[n].pc = "awaitCreate"
    /\ \E m \in 1..passes[n].i : SpecialScheme(passes[n].tabs[m].url)
    /\ \E k \in 1..Len(bms[passes[n].folder]) :
         bms[passes[n].folder][k].id = passes[n].newId

\* C12: the tab-created listener, run for a tab whose url starts with about:
\* or moz-extension:, neither takes the guard nor adds to the pending set.
C12_SpecialTabNoPass ==
  [][(OnTabCreated /\ SpecialScheme(Head(events).url))
       => /\ isSyncing' = isSyncing
          /\ pendingSyncs' = pendingSyncs
          /\ passes' = passes]_vars

\* C13: no tab creation is issued for a url that starts with about: or
\* moz-extension:, neither by a Bookmark->Tab pass nor by openFolderAsNewWindow,
\* also when the folder holds an entry with such a url.
C13_SpecialEntriesLeftOut ==
  /\ \A n \in 1..Len(passes) :
       (passes[n].dir = "b2t" /\ passes[n].pc = "awaitCreate")
         => ~SpecialScheme(passes[n].bms[passes[n].i + 1].url)
  /\ \A n \in 1..Len(ops) :
       (ops[n].kind = "open" /\ ops[n].pc = "awaitLastUsed"
        /\ OpenNextCall(ops[n]).api = "tabs.create")
         => ~SpecialScheme(OpenNextCall(ops[n]).url)

\* C14: a tab is pinned in a tracked window, a Tab->Bookmark pass completes
\* and has saved its url as pinned, the window is closed and its folder is
\* opened as a new window: the tab openFolderAsNewWindow creates for that url
\* is pinned.
C14_PinnedReplayed ==
  [][\A n \in 1..Len(ops) :
       (/\ OpenPopulate(n)
        /\ ops[n].folder = ext.replay.folder
        /\ OpenNextCall(ops[n]).api = "tabs.create"
        /\ OpenNextCall(ops[n]).url \in ext.replay.urls)
         => \E k \in 1..Len(tabs'[ops[n].win]) :
              /\ tabs'[ops[n].win][k].url = OpenNextCall(ops[n]).url
              /\ tabs'[ops[n].win][k].pinned
              /\ \A j \in 1..Len(tabs[ops[n].win]) :
                   tabs[ops[n].win][j].id # tabs'[ops[n].win][k].id]_vars

\* C15: when openFolderAsNewWindow returns for a folder that had an entry with a
\* normal url, the new window is mapped to the folder, its blank tab is gone,
\* and its tabs are one per normal-url entry, in the entries' order, each pinned
\* exactly when its url was in the folder's pinned set when the operation started.
C15_OpenedAsSaved ==
  [][\A n \in 1..Len(ops) :
       (/\ OpenReturn(n)
        /\ ops[n].pc # "awaitThrow"
        /\ UrlBookmarks(ext.opened.bms) # <<>>)
         => LET w == ops[n].win
                entries == UrlBookmarks(ext.opened.bms)
            IN /\ windowMappings'[w] = ops[n].folder
               /\ \A k \in 1..Len(tabs'[w]) : tabs'[w][k].id # ops[n].blank
               /\ Len(tabs'[w]) = Len(entries)
               /\ \A k \in 1..Len(entries) :
                    k <= Len(tabs'[w]) =>
                      /\ tabs'[w][k].url = entries[k].url
                      /\ tabs'[w][k].pinned = (entries[k].url \in ext.opened.pinned)]_vars

\* C16: passes never overlap; a tab notification of a tracked window that
\* arrives while a pass is running only adds the window to the pending set;
\* and every queued request of a window that is still tracked gets its own
\* pass: when a pass ends with such a request pending, the guard goes in the
\* same step from that pass to one new Tab->Bookmark pass for a pending tracked
\* window, and every other pending tracked window stays queued behind it.
C16_Serialized ==
  [][/\ Len(passes') <= 1
     /\ isSyncing' <=> Len(passes') = 1
     /\ (OnTabMoved /\ isSyncing /\ windowMappings[Head(events).win] # None)
          => /\ passes' = passes
             /\ pendingSyncs' = SetAdd(pendingSyncs, Head(events).win)
     /\ ((T2BEnd \/ B2TEnd)
          /\ \E k \in 1..Len(pendingSyncs) : windowMappings[pendingSyncs[k]] # None)
          => /\ isSyncing'
             /\ Len(passes') = 1
             /\ passes'[1].dir = "t2b"
             /\ passes'[1].pc = "awaitQuery"
             /\ \E k \in 1..Len(pendingSyncs) :
                  /\ passes'[1].win = pendingSyncs[k]
                  /\ windowMappings[pendingSyncs[k]] # None
                  /\ passes'[1].folder = windowMappings[pendingSyncs[k]]
                  /\ \A j \in 1..Len(pendingSyncs) :
                       (j # k /\ windowMappings[pendingSyncs[j]] # None)
                         => \E i \in 1..Len(pendingSyncs') :
                              pendingSyncs'[i] = pendingSyncs[j]]_vars

\* C17: a pass in which a tab, bookmark or storage call has failed releases the
\* guard like any other: when it ends, the flag is set only if a pending request
\* was drained into a new pass, and a request that arrives next is admitted.
C17_ReleasedWhenThrown ==
  [][\A n \in 1..Len(passes) :
       (/\ passes[n].pc = "awaitThrow"
        /\ SyncTabsToBookmarksFinally(n) \/ SyncBookmarksToTabsFinally(n))
         => /\ isSyncing' <=> passes' # <<>>
            /\ \A m \in 1..Len(passes') :
                 /\ passes'[m] # passes[n]
                 /\ passes'[m].pc \in {"awaitQuery", "awaitSubTree", "awaitThrow"}
                 /\ passes'[m].win \in {pendingSyncs[k] : k \in 1..Len(pendingSyncs)}
            /\ pendingSyncs = <<>>
                 => /\ ~isSyncing'
                    /\ \A w \in Windows :
                         windowMappings[w] # None
                           => SyncTabsToBookmarks(
                                [isSyncing |-> isSyncing',
                                 pendingSyncs |-> pendingSyncs',
                                 passes |-> passes'], w).passes # <<>>]_vars

\* a Tab->Bookmark pass in which a bookmark call has failed is about to end
C17_PassHasThrown ==
  \E n \in 1..Len(passes) :
    /\ passes[n].dir = "t2b" /\ passes[n].pc = "awaitThrow"
    /\ isSyncing

\* C18: when a Tab->Bookmark pass ends without error, the folder's pinned set,
\* in memory and persisted, is exactly the urls of the pinned tabs of the pass's
\* snapshot that are not of a special scheme, whatever the set was before.
C18_PinnedSetReplaced ==
  [][\A n \in 1..Len(passes) :
       (SyncTabsToBookmarksFinally(n) /\ passes[n].pc = "awaitSave")
         => /\ pinnedTabsByFolder'[passes[n].folder] =
                 [has |-> TRUE,
                  urls |-> {passes[n].tabs[k].url :
                              k \in {j \in 1..Len(passes[n].tabs) :
                                       /\ passes[n].tabs[j].pinned
                                       /\ passes[n].tabs[j].url # NoUrl
                                       /\ ~SpecialScheme(passes[n].tabs[j].url)}}]
            /\ storage'.pinned[passes[n].folder] =
                 pinnedTabsByFolder'[passes[n].folder]]_vars

\* a Tab->Bookmark pass has saved a pinned set that lacks a url the folder's
\* set held when the pass before it ended
C18_UrlDroppedFromSet ==
  \E n \in 1..Len(passes) :
    /\ passes[n].dir = "t2b" /\ passes[n].pc = "awaitSave"
    /\ lastPass.folder = passes[n].folder
    /\ lastPass.pinned.urls \ pinnedTabsByFolder[passes[n].folder].urls # {}

\* C19: each folder is mapped by at most one window (a window has at most one
\* mapping by construction: windowMappings is keyed by the window id).
C19_FolderMappedOnce ==
  \A f \in Folders : Cardinality({w \in Windows : windowMappings[w] = f}) <= 1

\* C20: initialize loads the pinned sets and the last-used stamps as persisted
\* and leaves them persisted as they were; when it returns, every mapping in
\* memory is a persisted mapping of a window that windows.getAll listed, no
\* mapping of a window that was not listed is persisted any more, and the
\* persisted mappings are the ones in memory.
C20_Initialized ==
  [][\A n \in 1..Len(ops) :
       /\ InitializeLoad(n)
            => /\ pinnedTabsByFolder' = storage.pinned
               /\ folderLastUsed' = storage.lastUsed
               /\ storage' = storage
       /\ InitializePrune(n)
            => /\ storage'.pinned = storage.pinned
               /\ storage'.lastUsed = storage.lastUsed
       /\ InitializeReturn(n)
            => /\ \A w \in Windows :
                    windowMappings[w] # None
                      => /\ w \in ops[n].wins
                         /\ windowMappings[w] = ops[n].data.mappings[w]
               /\ \A w \in Windows \ ops[n].wins : storage.mappings[w] = None
               /\ storage.mappings = windowMappings
               /\ pinnedTabsByFolder = ops[n].data.pinned
               /\ storage.pinned = ops[n].data.pinned
               /\ folderLastUsed = ops[n].data.lastUsed
               /\ storage.lastUsed = ops[n].data.lastUsed]_vars

\* initialize has dropped the persisted mapping of a window that is gone and
\* kept the mapping of a window that is there
C20_StaleDroppedLiveKept ==
  \E n \in 1..Len(ops) :
    /\ ops[n].kind = "initialize" /\ ops[n].pc = "awaitSave"
    /\ \E w \in Windows \ ops[n].wins :
         ops[n].data.mappings[w] # None /\ storage.mappings[w] = None
    /\ \E w \in ops[n].wins :
         windowMappings[w] # None /\ storage.mappings[w] = windowMappings[w]

\* the popup's association of a window that is suspended at pc
Associating(pc) == {n \in 1..Len(ops) : ops[n].kind = "associate" /\ ops[n].pc = pc}

\* What a call of associateWindowWithFolder does, step by step.  The step that
\* makes the call (from the popup, or from createFolderForWindow at line 110)
\* records the mapping in memory and in storage; the step after saveWindowMappings
\* stamps the folder's last-used time in memory and in storage; the step after
\* that calls syncTabsToBookmarks for the window, which does nothing for a
\* window that has lost its mapping: if a pass is running no pass
\* is started, nothing is read or written and the window is added to the
\* pending set, otherwise a Tab->Bookmark pass for the window starts at once,
\* for the call's folder (callsFolder) or for the folder the window is mapped
\* to then.  When a Tab->Bookmark pass ends without an error, every entry it
\* found in the folder whose url is the url of no tab is gone and every normal
\* tab it found has an entry.
AssociationRuns(callsFolder) ==
  /\ \A n \in Associating("awaitSave")' :
       (\/ n = Len(ops) + 1
        \/ n <= Len(ops) /\ Len(ops') = Len(ops) /\ ops[n].kind = "createFolder")
       => /\ windowMappings'[ops'[n].win] = ops'[n].folder
          /\ storage'.mappings = windowMappings'
  /\ \A n \in Associating("awaitSave") :
       ops' = [ops EXCEPT ![n].pc = "awaitLastUsed"]
       => /\ folderLastUsed'[ops[n].folder] > 0
          /\ storage'.lastUsed = folderLastUsed'
  /\ \A n \in Associating("awaitLastUsed") :
       ops' = RemoveAt(ops, n)
       => IF windowMappings[ops[n].win] = None
          THEN UNCHANGED <<passes, isSyncing, pendingSyncs, browserVars, memoryVars>>
          ELSE IF isSyncing
          THEN /\ passes' = passes /\ isSyncing'
               /\ pendingSyncs' = SetAdd(pendingSyncs, ops[n].win)
               /\ UNCHANGED <<browserVars, memoryVars>>
          ELSE /\ passes = <<>> /\ Len(passes') = 1 /\ isSyncing'
               /\ passes'[1].dir = "t2b"
               /\ passes'[1].win = ops[n].win
               /\ passes'[1].folder = IF callsFolder THEN ops[n].folder
                                      ELSE windowMappings[ops[n].win]
               /\ pendingSyncs' = pendingSyncs
  /\ (lastPass'.dir = "t2b" /\ lastPass'.ok)
     => LET r == lastPass'
        IN /\ \A m \in 1..Len(r.bms0) :
                (/\ r.bms0[m].url # NoUrl
                 /\ \A t \in 1..Len(r.tabs0) : r.tabs0[t].url # r.bms0[m].url)
                => \A k \in 1..Len(r.bms) : r.bms[k].id # r.bms0[m].id
           /\ \A t \in 1..Len(r.tabs0) :
                ~SkipTabUrl(r.tabs0[t].url)
                => \E k \in 1..Len(r.bms) : r.bms[k].url = r.tabs0[t].url

\* C21 as claimed: the initial pass of every call of associateWindowWithFolder
\* is a pass for the folder the call was made with.
C21_AssociateInitialPass == [][AssociationRuns(TRUE)]_vars

\* C21: associateWindowWithFolder records and persists the mapping, stamps the
\* folder's last-used time and then calls syncTabsToBookmarks for the window:
\* with the guard held the window is put in the pending set and no pass runs
\* inline; with the guard idle a Tab->Bookmark pass starts for the window and
\* the folder the window is mapped to at that call, in which the tabs are the
\* source of truth.  That folder is the call's folder when the call is the only
\* association of the window so far; a mapping changes only when an association
\* is recorded for its window or when the window is gone.
C21_AssociateSyncsMappedFolder ==
  [][/\ AssociationRuns(FALSE)
     /\ \A n \in Associating("awaitLastUsed") :
          (ops' = RemoveAt(ops, n) /\ ~isSyncing /\ ext.n = 1)
          => Len(passes') = 1 /\ passes'[1].folder = ops[n].folder
     /\ \A w \in Windows :
          windowMappings'[w] # windowMappings[w]
          => \/ /\ Len(ops') = Len(ops) + 1
                /\ ops'[Len(ops')].kind = "associate"
                /\ ops'[Len(ops')].win = w
                /\ windowMappings'[w] = ops'[Len(ops')].folder
             \/ w \notin live /\ windowMappings'[w] = None
    ]_vars

\* Window 2 was associated with folder 1 and, while that call was suspended,
\* with folder 2: both calls have returned, both folders are stamped, the
\* window is mapped to folder 2 and the pass that ended was for folder 2.
C21_SupersededCallDone ==
  /\ ops = <<>> /\ ext.n = 2
  /\ windowMappings[2] = 2
  /\ folderLastUsed[1] > 0 /\ folderLastUsed[2] > 0
  /\ lastPass.dir = "t2b" /\ lastPass.win = 2 /\ lastPass.folder = 2 /\ lastPass.ok

\* The initial pass of window 2, associated with folder 2 while nothing ran, has
\* ended: entry a, which matched no tab, is gone, and tab b has the entry it
\* lacked.
C21_InitialPassDone ==
  /\ lastPass.dir = "t2b" /\ lastPass.win = 2 /\ lastPass.folder = 2 /\ lastPass.ok
  /\ lastPass.prev.dir = "none"
  /\ ops = <<>> /\ ext.n = 1
  /\ \E m \in 1..Len(lastPass.bms0) : lastPass.bms0[m].url = "a"
  /\ \A k \in 1..Len(lastPass.bms) : lastPass.bms[k].url # "a"
  /\ \E k \in 1..Len(lastPass.bms) : lastPass.bms[k].url = "b"

\* The association reached line 98 while a pass of window 1 was running: the
\* window waits in the pending set.
C21_InitialPassDeferred ==
  /\ ops = <<>> /\ ext.n = 1 /\ windowMappings[2] # None
  /\ Len(passes) = 1 /\ passes[1].win = 1
  /\ pendingSyncs = <<2>>
  /\ lastPass.dir = "none"

\* the windows a notification makes its listener request a pass for (0: none)
RequestedWindow(e) ==
  IF e.type \in {"tabCreated", "tabUpdated", "tabMoved", "tabAttached", "tabDetached"}
  THEN {IF windowMappings[e.win] = None THEN 0 ELSE e.win}
  ELSE IF e.type = "tabRemoved"
  THEN {IF windowMappings[e.win] = None \/ e.closing THEN 0 ELSE e.win}
  ELSE IF e.type = "bmCreated"
  THEN {IF e.url = NoUrl THEN 0 ELSE WindowOfFolder(e.folder)}
  ELSE IF e.type = "bmRemoved"
  THEN {WindowOfFolder(e.folder)}
  ELSE IF e.type = "bmMoved"
  THEN {WindowOfFolder(e.folder), WindowOfFolder(e.old)}
  ELSE {}

\* pendingSyncs after the requests for the windows ws (0: none) were deferred
QueuedOnce(ws) ==
  /\ NoDup(pendingSyncs')
  /\ SubSeq(pendingSyncs', 1, Len(pendingSyncs)) = pendingSyncs
  /\ {pendingSyncs'[k] : k \in 1..Len(pendingSyncs')}
       = {pendingSyncs[k] : k \in 1..Len(pendingSyncs)} \cup (ws \ {0})

\* C22: when a listener (or the popup's association) asks for a pass of either
\* direction while isSyncing is set, no pass is started, tabs, bookmarks, pinned
\* sets, mappings and storage stay as they are and isSyncing stays set; the
\* pending set gains the requested window if it lacks it and is otherwise
\* unchanged, so the window is in it exactly once.  (The bookmarks.onChanged
\* listener asks when its bookmarks.get has settled.)
C22_DeferredRequestOnlyQueues ==
  [][/\ (/\ isSyncing /\ Len(events) > 0 /\ events' = Tail(events)
         /\ Head(events).type # "windowRemoved")
        => /\ isSyncing' /\ passes' = passes
           /\ UNCHANGED <<browserVars, memoryVars>>
           /\ QueuedOnce(RequestedWindow(Head(events)))
     /\ \A n \in {k \in 1..Len(ops) : ops[k].kind = "onChanged"} :
          (isSyncing /\ ops' = RemoveAt(ops, n))
          => /\ isSyncing' /\ passes' = passes
             /\ UNCHANGED <<browserVars, memoryVars>>
             /\ QueuedOnce({WindowOfFolder(ops[n].folder)})
     /\ \A n \in Associating("awaitLastUsed") :
          (isSyncing /\ ops' = RemoveAt(ops, n))
          => /\ isSyncing' /\ passes' = passes
             /\ UNCHANGED <<browserVars, memoryVars>>
             /\ QueuedOnce({IF windowMappings[ops[n].win] = None THEN 0
                            ELSE ops[n].win})
    ]_vars

\* While a pass runs and window 1 already waits in the pending set, a
\* notification about a bookmark of its folder is the next to be handled: a
\* second request for window 1 is about to be deferred.
C22_RepeatedRequestWaiting ==
  /\ isSyncing /\ Len(passes) = 1
  /\ pendingSyncs = <<1>>
  /\ Len(events) > 0
  /\ Head(events).type \in {"bmCreated", "bmMoved", "bmRemoved", "bmChanged"}
  /\ RequestedWindow(Head(events)) = {1}

TabCalls == {"tabs.create", "tabs.update", "tabs.move", "tabs.remove"}

\* C23: a running Tab->Bookmark pass is never about to issue tabs.create,
\* tabs.update, tabs.move or tabs.remove and none of its steps changes a tab or
\* a window; a running Bookmark->Tab pass is never about to issue
\* bookmarks.create, bookmarks.update, bookmarks.move or bookmarks.remove and
\* none of its steps, its last one included, changes a bookmark, a folder, a
\* pinned set or the stored pinned sets.
C23_OppositeViewOnly ==
  [][\A n \in 1..Len(passes) :
       /\ passes[n].dir = "t2b"
          => /\ T2BResume(passes[n]).call.api \notin TabCalls
             /\ passes' # passes => UNCHANGED <<live, tabs>>
       /\ passes[n].dir = "b2t"
          => /\ B2TResume(passes[n]).call.api
                  \notin {"bookmarks.create", "bookmarks.update", "bookmarks.move",
                          "bookmarks.remove", "savePinnedTabs"}
             /\ passes' # passes
                => /\ UNCHANGED <<folders, bms, pinnedTabsByFolder>>
                   /\ storage'.pinned = storage.pinned
    ]_vars

\* A Tab->Bookmark pass has ended after writing bookmarks, and the
\* Bookmark->Tab pass that followed it for a folder with a saved pinned url is
\* about to write a tab.
C23_BothDirectionsWrote ==
  /\ lastPass.dir = "t2b" /\ lastPass.writes > 0
  /\ Len(passes) = 1 /\ passes[1].dir = "b2t"
  /\ B2TResume(passes[1]).call.api \in TabCalls
  /\ pinnedTabsByFolder[passes[1].folder].urls # {}

\* C24: when a pass of either direction runs its finally block while the
\* pending set is not empty, the first window of the set is taken from it, a
\* Tab->Bookmark pass for that window starts in the same step, and the windows
\* behind it stay in the set in their order.
C24_ReleaseDrainsOne ==
  [][(/\ Len(passes) = 1
      /\ passes' # passes
      /\ (IF passes[1].dir = "t2b" THEN T2BResume(passes[1])
          ELSE B2TResume(passes[1])).call.api = "finally"
      /\ pendingSyncs # <<>>)
     => /\ isSyncing' /\ Len(passes') = 1
        /\ passes'[1].dir = "t2b"
        /\ passes'[1].win = Head(pendingSyncs)
        /\ Len(pendingSyncs') >= Len(pendingSyncs) - 1
        /\ SubSeq(pendingSyncs', 1, Len(pendingSyncs) - 1) = Tail(pendingSyncs)
    ]_vars

\* C25: whenever no pass is running the pending set is empty: a window put in
\* the pending set does not wait there with the guard idle.
C25_NothingStranded ==
  (~isSyncing /\ passes = <<>>) => pendingSyncs = <<>>

\* C26: from the moment openFolderAsNewWindow has recorded the mapping of the
\* new window until it returns, the folder it opens (tracked by no other
\* window) has the entries it had when the operation started, in the same
\* order: no pass removes, re-creates or moves one of them meanwhile.
C26_FolderKeptWhilePopulating ==
  \A n \in 1..Len(ops) :
    (/\ ops[n].kind = "open"
     /\ ops[n].pc \in {"awaitSave", "awaitLastUsed"}
     /\ \A w \in Windows \ {ops[n].win} : windowMappings[w] # ops[n].folder)
    => /\ ops[n].folder \in folders
       /\ [k \in 1..Len(bms[ops[n].folder]) |-> bms[ops[n].folder][k].id]
            = [k \in 1..Len(ext.opened.bms) |-> ext.opened.bms[k].id]

====
